---------------------------- MODULE Spec2Model ----------------------------
(***************************************************************************)
(* CourtVision play-event processing and pattern detection.                *)
(*                                                                         *)
(*   Spec        the processing Lambda (lambda/processing/handler.py):     *)
(*               concurrent invocations over one DynamoDB table, every     *)
(*               store call may raise and is swallowed as in the code.     *)
(*   SpecIngest  the two producers of Kinesis records (ingestion poll and  *)
(*               replay) and the dedup key they give a play.               *)
(*   SpecLedger  calculate_stats_delta / update_player_stats over every    *)
(*               combination of the classification inputs.                 *)
(*   SpecStreak  detect_hot_streaks over bounded play histories.           *)
(*   SpecRuns    the scoring-run detector over block-built periods.        *)
(***************************************************************************)
EXTENDS Integers, Sequences, FiniteSets, TLC

VARIABLES
    \* ---- the DynamoDB table (processing handler) ----
    score,        \* PK -> the SCORE#CURRENT item
    playsTbl,     \* the PLAY# items stored (put_item replaces an equal key)
    ledger,       \* <<playerId, PK>> -> the PLAYER#..#STATS item
    \* ---- handler invocations ----
    pc,           \* worker -> position in handler's loop
    batch,        \* worker -> event['Records'] of the running invocation
    idx,          \* worker -> index of the current record
    processed_count, \* worker -> handler's local counter
    pattern,      \* worker -> what detect_scoring_run last returned
    delivered,    \* number of records handed to invocations so far
    \* ---- history of the run (not program state) ----
    redo,         \* worker -> current record was fully handled before it was fetched
    existed,      \* worker -> current record's item was in the table at the check
    handled,      \* events whose loop iteration has ended at least once
    treatedNew,   \* event -> how many iterations passed the dedup check as new
    adds,         \* event -> how many ledger ADDs succeeded for it
    scoreApplied, \* events whose score update was applied
    failures,     \* how many store calls have raised so far
    \* ---- ingestion / replay (SpecIngest) ----
    stream,       \* records put on the Kinesis stream
    now,          \* wall clock of the producers
    \* ---- hot streak analysis (SpecStreak) ----
    hotPlays,     \* the play history of the analysed game
    pcHot,        \* "collect" while plays arrive, "analyzed" after the run
    hotCands,     \* analyze_patterns.py: hot_streaks when the loop ends
    hotOut,       \* analyze_patterns.py: the list detect_hot_streaks returns
    hotCands2,    \* analyze_patterns_v2.py: hot_streaks when the loop ends
    hotOut2,      \* analyze_patterns_v2.py: the list detect_hot_streaks returns
    \* ---- scoring run analysis (SpecRuns) ----
    runPlays,     \* the play history of the analysed game
    pcRun,        \* "collect" while plays arrive, "analyzed" after the run
    runAll,       \* analyze_patterns.py: all_runs of find_all_runs_by_quarter
    runOut,       \* analyze_patterns.py: unique_runs of deduplicate_runs
    runOut2,      \* analyze_patterns_v2.py: the list find_scoring_runs returns
    \* ---- momentum shift analysis (SpecMomentum) ----
    momPlays,     \* the play history of the analysed game (running scores)
    pcMom,        \* "collect" while plays arrive, "analyzed" after the run
    momShifts,    \* analyze_patterns.py: the list detect_momentum_shifts returns
    \* ---- pattern store (SpecPatterns) ----
    patternTbl,   \* the AI#PATTERN# items of the live table
    patternTbl2,  \* the PATTERN# items of the season table
    analyses,     \* script -> how many times its analyze_game has run
    \* ---- crashes of the processing Lambda (SpecCrash) ----
    crashes,      \* invocations that died before returning
    \* ---- one call of fetch_with_retry (SpecFetch) ----
    fetchPc,      \* position in fetch_with_retry
    max_retries,  \* the argument of the call
    attempt,      \* the loop variable
    requestsIssued, \* calls of requests.get so far
    responses,    \* what each request gave: "ok", "timeout", "http", "error"
    waits,        \* the arguments of time.sleep so far
    \* ---- WebSocket connections (SpecSocket) ----
    wsTable,      \* connection id -> its WS#CONNECTION item
    wsClient,     \* connection id -> "new", "connecting", "open", "refused", "closed"
    wsInbox,      \* route events API Gateway has dispatched, not handled yet
    wsSent,       \* subscribe messages sent so far
    wsDisconnected, \* connections whose $disconnect handler deleted the item
    wsLookup      \* game -> connection ids the last subscriber lookup returned

vars == <<score, playsTbl, ledger, pc, batch, idx, processed_count, pattern, delivered,
          redo, existed, handled, treatedNew, adds, scoreApplied, failures,
          stream, now, hotPlays, pcHot, hotCands, hotOut, hotCands2, hotOut2,
          runPlays, pcRun, runAll, runOut, runOut2,
          momPlays, pcMom, momShifts, patternTbl, patternTbl2, analyses, crashes,
          fetchPc, max_retries, attempt, requestsIssued, responses, waits,
          wsTable, wsClient, wsInbox, wsSent, wsDisconnected, wsLookup>>

procVars == <<score, playsTbl, ledger, pc, batch, idx, processed_count, pattern, delivered,
              redo, existed, handled, treatedNew, adds, scoreApplied, failures>>

ingestVars == <<stream, now>>

hotVars == <<hotPlays, pcHot, hotCands, hotOut, hotCands2, hotOut2>>

runVars == <<runPlays, pcRun, runAll, runOut, runOut2>>

momVars == <<momPlays, pcMom, momShifts>>

patVars == <<patternTbl, patternTbl2, analyses>>

crashVars == <<crashes>>

fetchVars == <<fetchPc, max_retries, attempt, requestsIssued, responses, waits>>

wsVars == <<wsTable, wsClient, wsInbox, wsSent, wsDisconnected, wsLookup>>

-----------------------------------------------------------------------------
(* Bounds of the model.                                                    *)

MaxDeliveries == 2   \* records handed to handler invocations in one run
MaxBatch == 2        \* records in one Kinesis batch
MaxClock == 4        \* producer clock ticks in SpecIngest
MaxFailures == 1     \* store calls that raise in one run

-----------------------------------------------------------------------------
(* Text matching.  A text is the set of keywords it contains; `kw in text` *)
(* of the source is Has(text, kw), closed under the substring relation     *)
(* between the keywords themselves.                                        *)

SubstrPairs ==
    { <<"miss", "missed">>, <<"three", "three point">>, <<"free", "free throw">>,
      <<"shot", "jumpshot">>, <<"made", "madefreethrow">>, <<"free", "madefreethrow">>,
      <<"layup", "layupshot">>, <<"shot", "layupshot">>,
      <<"miss", "missedfreethrow">>, <<"missed", "missedfreethrow">>,
      <<"free", "missedfreethrow">> }

IsSubstr(kw, t) == kw = t \/ <<kw, t>> \in SubstrPairs

Has(text, kw) == \E t \in text : IsSubstr(kw, t)

Min(a, b) == IF a <= b THEN a ELSE b


-----------------------------------------------------------------------------
(* The ESPN feed: the plays of two games as the summary endpoint returns   *)
(* them.  text / typeText are keyword sets (lower case); wallclock is the  *)
(* feed's own time of the play, present when hasWallclock.                 *)

GameHeader(g) ==
    IF g = "GAME#1"
    THEN [homeTeam |-> "Iowa", awayTeam |-> "Miami", homeTeamId |-> "H1", awayTeamId |-> "A1"]
    ELSE [homeTeam |-> "UCLA", awayTeam |-> "UConn", homeTeamId |-> "H2", awayTeamId |-> "A2"]

EspnPlay(g, seq, wc, per, clk, txt, typ, hs, as, sc, sv, tid, ath) ==
    [game |-> g, id |-> seq + 100, sequenceNumber |-> seq, hasWallclock |-> wc > 0,
     wallclock |-> wc, period |-> per, clock |-> clk, text |-> txt, typeText |-> typ,
     homeScore |-> hs, awayScore |-> as, scoringPlay |-> sc, scoreValue |-> sv,
     teamId |-> tid, athleteId |-> ath]

SourcePlays ==
    { EspnPlay("GAME#1", 1, 1, 1, "9:40", {"made", "layup"}, {"layupshot"},
               2, 0, TRUE, 2, "H1", "p1"),
      EspnPlay("GAME#1", 2, 2, 1, "9:20", {"made", "three point"}, {"jumpshot"},
               2, 3, TRUE, 3, "A1", "p2"),
      EspnPlay("GAME#1", 3, 3, 2, "8:55", {"missed", "three point", "foul"}, {"jumpshot"},
               2, 3, FALSE, 0, "H1", "p1"),
      EspnPlay("GAME#2", 1, 1, 1, "9:50", {"made", "free throw"}, {"madefreethrow"},
               1, 0, TRUE, 1, "H2", "p1") }

Games == { sp.game : sp \in SourcePlays }

(* Timestamps are strings in the source; the two producers format them     *)
(* differently (ESPN's wallclock text, Python's isoformat of now()).       *)
Stamp(fmt, t) == [fmt |-> fmt, t |-> t]

(* lambda/ingestion/handler.py parse_play_data: the SK carries the time of *)
(* the parse, not a time of the play.                                      *)
parse_play_data(espn_play, game_id, clock) ==
    LET play_id == espn_play.sequenceNumber
        timestamp == Stamp("iso", clock)
    IN [PK |-> game_id,
        SK |-> <<timestamp, play_id>>,
        playId |-> play_id,
        timestamp |-> timestamp,
        quarter |-> espn_play.period,
        gameClock |-> espn_play.clock,
        text |-> espn_play.text,
        scoringPlay |-> espn_play.scoringPlay,
        homeScore |-> espn_play.homeScore,
        awayScore |-> espn_play.awayScore,
        teamId |-> espn_play.teamId,
        playType |-> espn_play.typeText,
        pointsScored |-> 0, team |-> "", playerId |-> "", action |-> {},
        keys |-> {"teamId", "playType"}]

(* lambda/ingestion/replay_game.py parse_play_for_processing.              *)
replay_action(play) ==
    LET scored == play.scoreValue > 0
    IN  IF Has(play.text, "three point") \/ Has(play.typeText, "3pt")
        THEN (IF scored THEN {"made", "three"} ELSE {"missed", "three"})
        ELSE IF Has(play.typeText, "layup") \/ Has(play.typeText, "dunk")
        THEN (IF scored THEN {"made", "layup"} ELSE {"missed", "layup"})
        ELSE IF Has(play.typeText, "free throw")
        THEN (IF scored THEN {"made", "free throw"} ELSE {"missed", "free throw"})
        ELSE IF Has(play.typeText, "shot")
        THEN (IF scored THEN {"made", "two"} ELSE {"missed", "two"})
        ELSE play.typeText

parse_play_for_processing(play, game_id, clock) ==
    LET hdr == GameHeader(game_id)
        team_name == IF play.teamId = hdr.homeTeamId THEN hdr.homeTeam
                     ELSE IF play.teamId = hdr.awayTeamId THEN hdr.awayTeam
                     ELSE "Unknown"
        timestamp == IF play.hasWallclock THEN Stamp("espn", play.wallclock)
                     ELSE Stamp("iso", clock)
    IN [PK |-> game_id,
        SK |-> <<timestamp, play.sequenceNumber>>,
        playId |-> play.id,
        timestamp |-> timestamp,
        quarter |-> play.period,
        gameClock |-> play.clock,
        text |-> play.text,
        homeScore |-> play.homeScore,
        awayScore |-> play.awayScore,
        scoringPlay |-> (play.scoringPlay \/ play.scoreValue > 0),
        pointsScored |-> play.scoreValue,
        teamId |-> play.teamId,
        team |-> team_name,
        playerId |-> play.athleteId,
        playType |-> play.typeText,
        action |-> replay_action(play),
        keys |-> {"teamId", "playType", "pointsScored", "team", "playerId", "action"}]

(* The records the processing Lambda is fed: the replay of the feed.       *)
Events == { parse_play_for_processing(sp, sp.game, 0) : sp \in SourcePlays }

Sequence(e) == e.SK[2]
-----------------------------------------------------------------------------
(* lambda/processing/handler.py: the pure parts.                           *)

ZeroDelta ==
    [points |-> 0, fgMade |-> 0, fgAttempted |-> 0,
     threeMade |-> 0, threeAttempted |-> 0, fouls |-> 0]

StatFields == {"points", "fgMade", "fgAttempted", "threeMade", "threeAttempted", "fouls"}

(* calculate_stats_delta counting a made free throw as a made field goal.  *)
calculate_stats_delta_ftFieldGoal(play) ==
    LET text == play.text
        points_scored == IF "pointsScored" \in play.keys THEN play.pointsScored ELSE 0
        is_three == Has(text, "three") \/ Has(text, "3pt") \/ Has(text, "three point")
        base ==
            IF play.scoringPlay /\ points_scored > 0
            THEN IF is_three
                 THEN [ZeroDelta EXCEPT !.points = points_scored, !.fgMade = 1,
                           !.fgAttempted = 1, !.threeMade = 1, !.threeAttempted = 1]
                 ELSE [ZeroDelta EXCEPT !.points = points_scored, !.fgMade = 1,
                           !.fgAttempted = 1]
            ELSE IF ~play.scoringPlay /\ (Has(text, "miss") \/ Has(text, "block"))
            THEN IF is_three
                 THEN [ZeroDelta EXCEPT !.fgAttempted = 1, !.threeAttempted = 1]
                 ELSE [ZeroDelta EXCEPT !.fgAttempted = 1]
            ELSE ZeroDelta
    IN  IF Has(text, "foul") THEN [base EXCEPT !.fouls = 1] ELSE base

(* calculate_stats_delta with the miss branch of a three-point attempt     *)
(* counting the three-point attempt only.                                  *)
calculate_stats_delta_noFga(play) ==
    LET text == play.text
        play_type == IF "playType" \in play.keys THEN play.playType ELSE {}
        points_scored == IF "pointsScored" \in play.keys THEN play.pointsScored ELSE 0
        is_three == Has(text, "three") \/ Has(text, "3pt") \/ Has(text, "three point")
        is_free_throw == Has(text, "free throw") \/ Has(play_type, "free")
        base ==
            IF play.scoringPlay /\ points_scored > 0
            THEN IF is_three
                 THEN [ZeroDelta EXCEPT !.points = points_scored, !.fgMade = 1,
                           !.fgAttempted = 1, !.threeMade = 1, !.threeAttempted = 1]
                 ELSE IF ~is_free_throw
                 THEN [ZeroDelta EXCEPT !.points = points_scored, !.fgMade = 1,
                           !.fgAttempted = 1]
                 ELSE [ZeroDelta EXCEPT !.points = points_scored]
            ELSE IF ~play.scoringPlay /\ (Has(text, "miss") \/ Has(text, "block"))
            THEN IF is_three
                 THEN [ZeroDelta EXCEPT !.threeAttempted = 1]
                 ELSE IF ~is_free_throw
                 THEN [ZeroDelta EXCEPT !.fgAttempted = 1]
                 ELSE ZeroDelta
            ELSE ZeroDelta
    IN  IF Has(text, "foul") THEN [base EXCEPT !.fouls = 1] ELSE base

calculate_stats_delta(play) ==
    LET text == play.text
        play_type == IF "playType" \in play.keys THEN play.playType ELSE {}
        scoring_play == play.scoringPlay
        points_scored == IF "pointsScored" \in play.keys THEN play.pointsScored ELSE 0
        is_three == Has(text, "three") \/ Has(text, "3pt") \/ Has(text, "three point")
        is_free_throw == Has(text, "free throw") \/ Has(play_type, "free")
        is_foul == Has(text, "foul")
        base ==
            IF scoring_play /\ points_scored > 0
            THEN IF is_three
                 THEN [ZeroDelta EXCEPT !.points = points_scored, !.fgMade = 1,
                           !.fgAttempted = 1, !.threeMade = 1, !.threeAttempted = 1]
                 ELSE IF ~is_free_throw
                 THEN [ZeroDelta EXCEPT !.points = points_scored, !.fgMade = 1,
                           !.fgAttempted = 1]
                 ELSE [ZeroDelta EXCEPT !.points = points_scored]
            ELSE IF ~scoring_play
            THEN IF Has(text, "miss") \/ Has(text, "block")
                 THEN IF is_three
                      THEN [ZeroDelta EXCEPT !.fgAttempted = 1, !.threeAttempted = 1]
                      ELSE IF ~is_free_throw
                      THEN [ZeroDelta EXCEPT !.fgAttempted = 1]
                      ELSE ZeroDelta
                 ELSE ZeroDelta
            ELSE ZeroDelta
    IN  IF is_foul THEN [base EXCEPT !.fouls = 1] ELSE base

(* A PLAYER#<id> / <PK>#STATS item.  A numeric attribute DynamoDB has not  *)
(* yet ADDed to is absent and reads as 0.                                  *)
NoLedger ==
    [present |-> FALSE, points |-> 0, fgMade |-> 0, fgAttempted |-> 0,
     threeMade |-> 0, threeAttempted |-> 0, fouls |-> 0, team |-> ""]

NoScore ==
    [present |-> FALSE, homeScore |-> 0, awayScore |-> 0, quarter |-> 0,
     gameClock |-> "", lastUpdated |-> Stamp("", 0), period |-> 0, displayClock |-> ""]

(* The METADATA item of a game, as store_game_metadata wrote it.           *)
Metadata(pk) == GameHeader(pk)

(* update_item with `SET team = :team`, the numeric fields written rather  *)
(* than added.                                                             *)
AddToItem_overwrite(item, delta, team_name) ==
    [present |-> TRUE,
     points |-> IF delta.points > 0 THEN delta.points ELSE item.points,
     fgMade |-> IF delta.fgMade > 0 THEN delta.fgMade ELSE item.fgMade,
     fgAttempted |-> IF delta.fgAttempted > 0 THEN delta.fgAttempted ELSE item.fgAttempted,
     threeMade |-> IF delta.threeMade > 0 THEN delta.threeMade ELSE item.threeMade,
     threeAttempted |-> IF delta.threeAttempted > 0 THEN delta.threeAttempted
                        ELSE item.threeAttempted,
     fouls |-> IF delta.fouls > 0 THEN delta.fouls ELSE item.fouls,
     team |-> team_name]

(* update_player_stats, lines 185-225: one update_item,                    *)
(* `ADD <the fields whose delta is > 0> SET ... team = :team`.             *)
AddToItem(item, delta, team_name) ==
    [present |-> TRUE,
     points |-> IF delta.points > 0 THEN item.points + delta.points ELSE item.points,
     fgMade |-> IF delta.fgMade > 0 THEN item.fgMade + delta.fgMade ELSE item.fgMade,
     fgAttempted |-> IF delta.fgAttempted > 0 THEN item.fgAttempted + delta.fgAttempted
                     ELSE item.fgAttempted,
     threeMade |-> IF delta.threeMade > 0 THEN item.threeMade + delta.threeMade
                   ELSE item.threeMade,
     threeAttempted |-> IF delta.threeAttempted > 0
                        THEN item.threeAttempted + delta.threeAttempted
                        ELSE item.threeAttempted,
     fouls |-> IF delta.fouls > 0 THEN item.fouls + delta.fouls ELSE item.fouls,
     team |-> team_name]

(* A team lookup that falls back to the home team's name instead of        *)
(* "Unknown".                                                              *)
ResolveTeam_homeDefault(play, mdOk) ==
    LET metadata == Metadata(play.PK)
        play_team_id == IF "teamId" \in play.keys THEN play.teamId ELSE ""
    IN  IF mdOk /\ play_team_id = metadata.awayTeamId THEN metadata.awayTeam
        ELSE metadata.homeTeam

(* The team name update_player_stats resolves (lines 159-178); mdOk is     *)
(* whether the get_item of METADATA returned.                              *)
ResolveTeam(play, mdOk) ==
    IF ~mdOk THEN "Unknown"
    ELSE LET metadata == Metadata(play.PK)
             play_team_id == IF "teamId" \in play.keys THEN play.teamId ELSE ""
         IN  IF play_team_id = metadata.homeTeamId THEN metadata.homeTeam
             ELSE IF play_team_id = metadata.awayTeamId THEN metadata.awayTeam
             ELSE "Unknown"

(* The key of a ledger kept per player, not per player and game.           *)
LedgerKey_perPlayer(play) == <<play.playerId, "GAME#1">>

LedgerKey(play) == <<play.playerId, play.PK>>

(* update_player_stats without the test of lines 156-157: the update_item  *)
(* is reached for every play with a player id.                             *)
WritesLedger_anyDelta(play) == "playerId" \in play.keys

(* Whether update_player_stats reaches its update_item for this play.      *)
WritesLedger(play) ==
    /\ "playerId" \in play.keys
    /\ calculate_stats_delta(play) # ZeroDelta

(* update_player_stats giving up when the METADATA read raises.            *)
update_player_stats_needsTeam(led, play, mdOk, ok) ==
    IF WritesLedger(play) /\ ok /\ mdOk
    THEN [led EXCEPT ![LedgerKey(play)] =
              AddToItem(@, calculate_stats_delta(play), ResolveTeam(play, mdOk))]
    ELSE led

(* update_player_stats as a function of the ledger items: mdOk / ok say    *)
(* whether the METADATA read and the update_item returned.                 *)
update_player_stats(led, play, mdOk, ok) ==
    IF WritesLedger(play) /\ ok
    THEN [led EXCEPT ![LedgerKey(play)] =
              AddToItem(@, calculate_stats_delta(play), ResolveTeam(play, mdOk))]
    ELSE led

(* A score update that adds the play's scores to the stored ones (what the *)
(* handler does not do).                                                   *)
update_current_score_add(sc, play, ok) ==
    IF ok
    THEN [sc EXCEPT ![play.PK] =
              [@ EXCEPT !.present = TRUE, !.homeScore = @ + play.homeScore,
                        !.awayScore = @ + play.awayScore, !.quarter = play.quarter,
                        !.gameClock = play.gameClock, !.lastUpdated = play.timestamp]]
    ELSE sc

(* update_current_score, lines 81-98: SET of the five attributes.          *)
update_current_score(sc, play, ok) ==
    IF ok
    THEN [sc EXCEPT ![play.PK] =
              [@ EXCEPT !.present = TRUE, !.homeScore = play.homeScore,
                        !.awayScore = play.awayScore, !.quarter = play.quarter,
                        !.gameClock = play.gameClock, !.lastUpdated = play.timestamp]]
    ELSE sc

(* store_play: put_item replaces the item with the same (PK, SK).          *)
store_play(tbl, play, ok) ==
    IF ok
    THEN { i \in tbl : ~(i.PK = play.PK /\ i.SK = play.SK) } \cup {play}
    ELSE tbl

(* play_already_processed with the except branch returning True.          *)
play_already_processed_assumeSeen(tbl, play, ok) ==
    ~ok \/ \E i \in tbl : i.PK = play.PK /\ i.SK = play.SK

(* play_already_processed: get_item by (PK, SK); an exception reads as new.*)
play_already_processed(tbl, play, ok) ==
    ok /\ \E i \in tbl : i.PK = play.PK /\ i.SK = play.SK
(* get_recent_plays: the `limit` newest PLAY# items of the game (query     *)
(* with ScanIndexForward = False); an exception reads as no plays.         *)
SKLess(a, b) == a[1].t < b[1].t \/ (a[1].t = b[1].t /\ a[2] < b[2])

get_recent_plays(tbl, game_id, limit, ok) ==
    IF ~ok THEN {}
    ELSE LET items == { i \in tbl : i.PK = game_id }
         IN  { i \in items :
                 Cardinality({ j \in items : SKLess(i.SK, j.SK) }) < limit }

RECURSIVE SumPoints(_, _)
SumPoints(plays, team) ==
    IF plays = {} THEN 0
    ELSE LET p == CHOOSE x \in plays : TRUE
             pts == IF p.scoringPlay /\ "team" \in p.keys /\ p.team = team
                    THEN (IF "pointsScored" \in p.keys THEN p.pointsScored ELSE 0)
                    ELSE 0
         IN  pts + SumPoints(plays \ {p}, team)

NoPattern == [found |-> FALSE, team |-> "", points_for |-> 0, points_against |-> 0]

RecentLimit == 15
RunMinPoints == 10
RunMaxAgainst == 2

(* detect_scoring_run of the processing handler (lines 234-275).           *)
detect_scoring_run(recent_plays, home_team, away_team) ==
    LET home_points == SumPoints(recent_plays, home_team)
        away_points == IF away_team = home_team THEN 0
                       ELSE SumPoints(recent_plays, away_team)
    IN  IF home_points >= RunMinPoints /\ away_points <= RunMaxAgainst
        THEN [found |-> TRUE, team |-> home_team,
              points_for |-> home_points, points_against |-> away_points]
        ELSE IF away_points >= RunMinPoints /\ home_points <= RunMaxAgainst
        THEN [found |-> TRUE, team |-> away_team,
              points_for |-> away_points, points_against |-> home_points]
        ELSE NoPattern

-----------------------------------------------------------------------------
(* The processing Lambda: handler(event, context), one step per store call.*)

Workers == {"w1", "w2"}

PlayerIds == { e.playerId : e \in Events }

LedgerKeys == PlayerIds \X Games

RECURSIVE SeqsUpTo(_, _)
SeqsUpTo(S, n) ==
    IF n = 0 THEN { <<>> }
    ELSE LET shorter == SeqsUpTo(S, n - 1)
         IN  shorter \cup { Append(s, x) : s \in shorter, x \in S }

Batches == SeqsUpTo(Events, MaxBatch) \ { <<>> }

Cur(w) == batch[w][idx[w]]

(* n store calls of the step raise (each is caught where the code catches  *)
(* it).                                                                    *)
Fails(n) ==
    /\ failures + n <= MaxFailures
    /\ failures' = failures + n

storeFailed == failures > 0

(* Lambda gives an invocation to any free execution environment; they are  *)
(* interchangeable, so the first free one (in a fixed order) takes it.     *)
WorkerOrder(w) == IF w = "w1" THEN 1 ELSE 2

FirstIdle(w) ==
    /\ pc[w] = "idle"
    /\ \A v \in Workers : pc[v] = "idle" => WorkerOrder(w) <= WorkerOrder(v)

Busy(w) == pc[w] \in {"check", "score", "store", "stats", "detect"}

(* The empty table and no invocation, for the events a run may be fed.     *)
InitProcOver(events) ==
    /\ score = [g \in Games |-> NoScore]
    /\ playsTbl = {}
    /\ ledger = [k \in { e.playerId : e \in events } \X Games |-> NoLedger]
    /\ pc = [w \in Workers |-> "idle"]
    /\ batch = [w \in Workers |-> <<>>]
    /\ idx = [w \in Workers |-> 0]
    /\ processed_count = [w \in Workers |-> 0]
    /\ pattern = [w \in Workers |-> NoPattern]
    /\ delivered = 0
    /\ redo = [w \in Workers |-> FALSE]
    /\ existed = [w \in Workers |-> FALSE]
    /\ handled = {}
    /\ treatedNew = [e \in events |-> 0]
    /\ adds = [e \in events |-> 0]
    /\ scoreApplied = {}
    /\ failures = 0

InitProc == InitProcOver(Events)

InitIngestIdle ==
    /\ stream = {}
    /\ now = 1

(* Kinesis invokes the handler with a batch of records; a record may be    *)
(* delivered any number of times (at-least-once).                          *)
Deliver(w, b) ==
    /\ pc[w] = "idle"
    /\ \A v \in Workers : FirstIdle(v) => v = w
    /\ delivered + Len(b) <= MaxDeliveries
    /\ delivered' = delivered + Len(b)
    /\ batch' = [batch EXCEPT ![w] = b]
    /\ idx' = [idx EXCEPT ![w] = 1]
    /\ processed_count' = [processed_count EXCEPT ![w] = 0]
    /\ pc' = [pc EXCEPT ![w] = "check"]
    /\ redo' = [redo EXCEPT ![w] = b[1] \in handled]
    /\ existed' = [existed EXCEPT ![w] = FALSE]
    /\ UNCHANGED <<score, playsTbl, ledger, pattern, handled, treatedNew, adds,
                   scoreApplied, failures>>
    /\ UNCHANGED <<ingestVars, hotVars, runVars, momVars, patVars, crashVars, fetchVars, wsVars>>

(* The end of one loop iteration (`continue`, or falling off the body):    *)
(* the next record of the batch, or the return of the handler.             *)
NextRecord(w, nowHandled) ==
    /\ handled' = nowHandled
    /\ IF idx[w] < Len(batch[w])
       THEN /\ idx' = [idx EXCEPT ![w] = idx[w] + 1]
            /\ pc' = [pc EXCEPT ![w] = "check"]
            /\ redo' = [redo EXCEPT ![w] = batch[w][idx[w] + 1] \in nowHandled]
            /\ existed' = [existed EXCEPT ![w] = FALSE]
       ELSE /\ idx' = idx
            /\ pc' = [pc EXCEPT ![w] = "done"]
            /\ UNCHANGED <<redo, existed>>

(* Lines 325-328: the dedup check.                                         *)
Check(w, ok) ==
    /\ pc[w] = "check"
    /\ Fails(IF ok THEN 0 ELSE 1)
    /\ LET play == Cur(w)
           inTable == \E i \in playsTbl : i.PK = play.PK /\ i.SK = play.SK
       IN  IF play_already_processed(playsTbl, play, ok)
           THEN /\ NextRecord(w, handled \cup {play})
                /\ UNCHANGED treatedNew
           ELSE /\ pc' = [pc EXCEPT ![w] = "score"]
                /\ existed' = [existed EXCEPT ![w] = inTable]
                /\ treatedNew' = [treatedNew EXCEPT ![play] = @ + 1]
                /\ UNCHANGED <<idx, redo, handled>>
    /\ UNCHANGED <<score, playsTbl, ledger, batch, processed_count, pattern,
                   delivered, adds, scoreApplied>>
    /\ UNCHANGED <<ingestVars, hotVars, runVars, momVars, patVars, crashVars, fetchVars, wsVars>>

(* Line 331: update_current_score.                                         *)
Score(w, ok) ==
    /\ pc[w] = "score"
    /\ Fails(IF ok THEN 0 ELSE 1)
    /\ score' = update_current_score(score, Cur(w), ok)
    /\ scoreApplied' = IF ok THEN scoreApplied \cup {Cur(w)} ELSE scoreApplied
    /\ pc' = [pc EXCEPT ![w] = "store"]
    /\ UNCHANGED <<playsTbl, ledger, batch, idx, processed_count, pattern, delivered,
                   redo, existed, handled, treatedNew, adds>>
    /\ UNCHANGED <<ingestVars, hotVars, runVars, momVars, patVars, crashVars, fetchVars, wsVars>>

(* Line 334: store_play.                                                   *)
Store(w, ok) ==
    /\ pc[w] = "store"
    /\ Fails(IF ok THEN 0 ELSE 1)
    /\ playsTbl' = store_play(playsTbl, Cur(w), ok)
    /\ pc' = [pc EXCEPT ![w] = "stats"]
    /\ UNCHANGED <<score, ledger, batch, idx, processed_count, pattern, delivered,
                   redo, existed, handled, treatedNew, adds, scoreApplied>>
    /\ UNCHANGED <<ingestVars, hotVars, runVars, momVars, patVars, crashVars, fetchVars, wsVars>>

(* Line 337: update_player_stats (the METADATA read and the update_item).  *)
Stats(w, mdOk, ok) ==
    /\ pc[w] = "stats"
    /\ WritesLedger(Cur(w)) \/ (mdOk /\ ok)
    /\ Fails((IF mdOk THEN 0 ELSE 1) + (IF ok THEN 0 ELSE 1))
    /\ ledger' = update_player_stats(ledger, Cur(w), mdOk, ok)
    /\ adds' = IF WritesLedger(Cur(w)) /\ ok
               THEN [adds EXCEPT ![Cur(w)] = @ + 1] ELSE adds
    /\ pc' = [pc EXCEPT ![w] = "detect"]
    /\ UNCHANGED <<score, playsTbl, batch, idx, processed_count, pattern, delivered,
                   redo, existed, handled, treatedNew, scoreApplied>>
    /\ UNCHANGED <<ingestVars, hotVars, runVars, momVars, patVars, crashVars, fetchVars, wsVars>>

(* Lines 339-362: get_recent_plays, the METADATA read, detect_scoring_run, *)
(* processed_count += 1.  A failed METADATA read skips the detection.      *)
Detect(w, qOk, mdOk) ==
    /\ pc[w] = "detect"
    /\ Fails((IF qOk THEN 0 ELSE 1) + (IF mdOk THEN 0 ELSE 1))
    /\ LET play == Cur(w)
           recent_plays == get_recent_plays(playsTbl, play.PK, RecentLimit, qOk)
           metadata == Metadata(play.PK)
       IN  /\ pattern' = [pattern EXCEPT ![w] =
                  IF mdOk
                  THEN detect_scoring_run(recent_plays, metadata.homeTeam, metadata.awayTeam)
                  ELSE NoPattern]
           /\ NextRecord(w, handled \cup {play})
    /\ processed_count' = [processed_count EXCEPT ![w] = @ + 1]
    /\ UNCHANGED <<score, playsTbl, ledger, batch, delivered, treatedNew, adds,
                   scoreApplied>>
    /\ UNCHANGED <<ingestVars, hotVars, runVars, momVars, patVars, crashVars, fetchVars, wsVars>>

(* Lines 364-369: the handler returns 'Processed <n> plays'.               *)
Return(w) ==
    /\ pc[w] = "done"
    /\ pc' = [pc EXCEPT ![w] = "idle"]
    /\ batch' = [batch EXCEPT ![w] = <<>>]
    /\ idx' = [idx EXCEPT ![w] = 0]
    /\ processed_count' = [processed_count EXCEPT ![w] = 0]
    /\ pattern' = [pattern EXCEPT ![w] = NoPattern]
    /\ redo' = [redo EXCEPT ![w] = FALSE]
    /\ existed' = [existed EXCEPT ![w] = FALSE]
    /\ UNCHANGED <<score, playsTbl, ledger, delivered, handled, treatedNew, adds,
                   scoreApplied, failures>>
    /\ UNCHANGED <<ingestVars, hotVars, runVars, momVars, patVars, crashVars, fetchVars, wsVars>>

NextProc ==
    \/ \E w \in Workers, b \in Batches : Deliver(w, b)
    \/ \E w \in Workers, ok \in BOOLEAN : Check(w, ok)
    \/ \E w \in Workers, ok \in BOOLEAN : Score(w, ok)
    \/ \E w \in Workers, ok \in BOOLEAN : Store(w, ok)
    \/ \E w \in Workers, mdOk \in BOOLEAN, ok \in BOOLEAN : Stats(w, mdOk, ok)
    \/ \E w \in Workers, qOk \in BOOLEAN, mdOk \in BOOLEAN : Detect(w, qOk, mdOk)
    \/ \E w \in Workers : Return(w)

InitHotIdle ==
    /\ hotPlays = <<>>
    /\ pcHot = "collect"
    /\ hotCands = <<>>
    /\ hotOut = <<>>
    /\ hotCands2 = <<>>
    /\ hotOut2 = <<>>

InitRunIdle ==
    /\ runPlays = <<>>
    /\ pcRun = "collect"
    /\ runAll = <<>>
    /\ runOut = <<>>
    /\ runOut2 = <<>>

InitMomIdle ==
    /\ momPlays = <<>>
    /\ pcMom = "collect"
    /\ momShifts = <<>>

InitPatIdle ==
    /\ patternTbl = {}
    /\ patternTbl2 = {}
    /\ analyses = [v \in {"live", "season"} |-> 0]

InitCrashIdle == crashes = 0

InitFetchIdle ==
    /\ fetchPc = "idle"
    /\ max_retries = 0
    /\ attempt = 0
    /\ requestsIssued = 0
    /\ responses = <<>>
    /\ waits = <<>>

ConnIds == {"c1", "c2"}

NoConnection == [present |-> FALSE, gameId |-> "", GSI1PK |-> "", connectedAt |-> 0]

InitWsIdle ==
    /\ wsTable = [c \in ConnIds |-> NoConnection]
    /\ wsClient = [c \in ConnIds |-> "new"]
    /\ wsInbox = {}
    /\ wsSent = 0
    /\ wsDisconnected = {}
    /\ wsLookup = [g \in Games |-> {}]

InitRestIdle == InitMomIdle /\ InitPatIdle /\ InitCrashIdle /\ InitFetchIdle /\ InitWsIdle

Init == InitProc /\ InitIngestIdle /\ InitHotIdle /\ InitRunIdle /\ InitRestIdle

Next == NextProc

Spec == Init /\ [][Next]_vars
-----------------------------------------------------------------------------
(* Claims about the processing Lambda, checked under Spec.                 *)

Moves(w) == <<pc[w], idx[w]>> # <<pc'[w], idx'[w]>>

InTable(play) == \E i \in playsTbl : i.PK = play.PK /\ i.SK = play.SK

(* C1: delivering a play event again, after an earlier delivery of it has  *)
(* been handled to the end, changes neither Game State nor any Player Game *)
(* Ledger (the handler writes no pattern records at all): twice is the     *)
(* same as once.                                                           *)
C1_RedeliveryChangesNothing ==
    [][\A w \in Workers :
          (Busy(w) /\ redo[w] /\ Moves(w)) => (score' = score /\ ledger' = ledger)]_vars

(* C2: with no store call failing, however the store operations of two     *)
(* invocations interleave, at most one of them passes the dedup check for  *)
(* a given play as new, and the play's delta is added to the ledger at     *)
(* most once.                                                              *)
C2_AtomicDedup ==
    ~storeFailed => \A e \in Events : treatedNew[e] <= 1 /\ adds[e] <= 1

(* C3: when the play record of the current event was in the table at the   *)
(* dedup check, the handler's steps for that event write nothing to Game   *)
(* State, the play records or the ledgers, run no detection and do not     *)
(* count the event.                                                        *)
C3_ExistingPlaySkipped ==
    [][\A w \in Workers :
          (Busy(w) /\ pc[w] # "check" /\ existed[w] /\ Moves(w))
              => /\ score' = score
                 /\ playsTbl' = playsTbl
                 /\ ledger' = ledger
                 /\ processed_count'[w] = processed_count[w]
                 /\ pc'[w] # "detect"]_vars

HighestApplied(g) ==
    CHOOSE e \in scoreApplied :
        /\ e.PK = g
        /\ \A o \in scoreApplied : o.PK = g => Sequence(o) <= Sequence(e)

(* C4: Game State carries the score, period and clock of the               *)
(* highest-sequence play whose score update has been applied.              *)
C4_ScoreIsHighestSequence ==
    \A g \in Games :
        score[g].present =>
            LET e == HighestApplied(g)
            IN  /\ score[g].homeScore = e.homeScore
                /\ score[g].awayScore = e.awayScore
                /\ score[g].quarter = e.quarter
                /\ score[g].gameClock = e.gameClock

RECURSIVE SumAdds(_, _, _)
SumAdds(S, k, f) ==
    IF S = {} THEN 0
    ELSE LET e == CHOOSE x \in S : TRUE
         IN  (IF LedgerKey(e) = k THEN adds[e] * calculate_stats_delta(e)[f] ELSE 0)
             + SumAdds(S \ {e}, k, f)

(* C6: whatever the order and interleaving in which the increments were    *)
(* applied, every numeric total of a ledger is the sum of the              *)
(* corresponding field over the deltas applied to it.                      *)
C6_LedgerIsSumOfDeltas ==
    \A k \in LedgerKeys : \A f \in StatFields : ledger[k][f] = SumAdds(Events, k, f)

(* Two different plays of one player and game have both been added, by two *)
(* invocations that are both past their ledger step.                       *)
C6_Witness ==
    /\ pc["w1"] = "detect" /\ pc["w2"] = "detect"
    /\ Cur("w1") # Cur("w2")
    /\ LedgerKey(Cur("w1")) = LedgerKey(Cur("w2"))
    /\ adds[Cur("w1")] = 1 /\ adds[Cur("w2")] = 1
    /\ ledger[LedgerKey(Cur("w1"))].fgAttempted = 2
-----------------------------------------------------------------------------
(* SpecIngest: the producers of Kinesis records.                           *)

(* The feed also returns plays that carry no wallclock.                    *)
Feed ==
    SourcePlays \cup
    { EspnPlay("GAME#2", 2, 0, 1, "9:30", {"timeout"}, {"timeout"},
               1, 0, FALSE, 0, "A2", "") }

(* lambda/ingestion/handler.py parse_game_data: the scoreboard entry of a  *)
(* game when its first n plays have happened.                              *)
Scoreboard(g, n) ==
    LET sp == CHOOSE x \in Feed : x.game = g /\ x.sequenceNumber = n
    IN  [PK |-> g, homeScore |-> sp.homeScore, awayScore |-> sp.awayScore,
         period |-> sp.period, displayClock |-> sp.clock]

(* lambda/ingestion/handler.py store_current_score: put_item of the whole  *)
(* SCORE#CURRENT item (attributes it does not name are gone).              *)
store_current_score(sc, game, clock, ok) ==
    IF ok
    THEN [sc EXCEPT ![game.PK] =
              [NoScore EXCEPT !.present = TRUE, !.homeScore = game.homeScore,
                              !.awayScore = game.awayScore, !.period = game.period,
                              !.displayClock = game.displayClock,
                              !.lastUpdated = Stamp("iso", clock)]]
    ELSE sc

(* lambda/ingestion/handler.py handler: one poll of a live game stores the *)
(* scoreboard's score (line 358), then parses and sends every play the     *)
(* summary returns so far, the first n of the game (lines 366-375).        *)
Poll(g, n, ok) ==
    /\ now < MaxClock
    /\ \E sp \in Feed : sp.game = g /\ sp.sequenceNumber = n
    /\ score' = store_current_score(score, Scoreboard(g, n), now, ok)
    /\ stream' = stream \cup
           { parse_play_data(sp, g, now) : sp \in { x \in Feed : x.game = g /\ x.sequenceNumber <= n } }
    /\ now' = now + 1
    /\ UNCHANGED <<playsTbl, ledger, pc, batch, idx, processed_count, pattern, delivered,
                   redo, existed, handled, treatedNew, adds, scoreApplied, failures>>
    /\ UNCHANGED <<hotVars, runVars, momVars, patVars, crashVars, fetchVars, wsVars>>

(* lambda/ingestion/replay_game.py replay_game: every play of the recorded *)
(* game is parsed and sent.                                                *)
Replay(g) ==
    /\ now < MaxClock
    /\ stream' = stream \cup
           { parse_play_for_processing(sp, g, now) : sp \in { x \in Feed : x.game = g } }
    /\ now' = now + 1
    /\ UNCHANGED <<procVars, hotVars, runVars, momVars, patVars, crashVars, fetchVars, wsVars>>

NextIngest ==
    \/ \E g \in Games, n \in 1..Cardinality(Feed), ok \in BOOLEAN : Poll(g, n, ok)
    \/ \E g \in Games : Replay(g)

SpecIngest == Init /\ [][NextIngest]_vars

SamePlay(r1, r2) == r1.PK = r2.PK /\ Sequence(r1) = Sequence(r2)

(* C5: two records on the stream that are the same in-game play (same game *)
(* and sequence number) carry the same dedup key, so with one of them      *)
(* stored the Dedup Guard recognises the other as already processed.       *)
C5_SamePlaySameKey ==
    \A r1, r2 \in stream :
        SamePlay(r1, r2) => play_already_processed({r1}, r2, TRUE)

-----------------------------------------------------------------------------
(* SpecLedger: update_player_stats applied play after play, the play drawn *)
(* from every combination of the inputs calculate_stats_delta reads.       *)

MaxApplied == 2      \* plays applied to the ledgers in one run

ClassWords == {"three", "3pt", "free throw", "foul", "miss", "block"}

ClassPlays ==
    { [PK |-> "GAME#1", SK |-> <<Stamp("espn", 1), 1>>, playId |-> 1,
       timestamp |-> Stamp("espn", 1), quarter |-> 1, gameClock |-> "9:40",
       text |-> txt, homeScore |-> 0, awayScore |-> 0,
       scoringPlay |-> sc, pointsScored |-> pts, teamId |-> "H1", team |-> "Iowa",
       playerId |-> "p1", playType |-> typ, action |-> {},
       keys |-> ks \cup {"teamId", "playType", "pointsScored", "team", "action"}] :
         txt \in SUBSET ClassWords, typ \in { {}, {"free throw"} },
         sc \in BOOLEAN, pts \in 0..3, ks \in { {}, {"playerId"} } }

ApplyPlay(play, mdOk, ok) ==
    /\ delivered < MaxApplied
    /\ delivered' = delivered + 1
    /\ ledger' = update_player_stats(ledger, play, mdOk, ok)
    /\ UNCHANGED <<score, playsTbl, pc, batch, idx, processed_count, pattern,
                   redo, existed, handled, treatedNew, adds, scoreApplied, failures>>
    /\ UNCHANGED <<ingestVars, hotVars, runVars, momVars, patVars, crashVars, fetchVars, wsVars>>

NextLedger == \E play \in ClassPlays, mdOk, ok \in BOOLEAN : ApplyPlay(play, mdOk, ok)

SpecLedger == Init /\ [][NextLedger]_vars

(* C7: every Player Game Ledger has fgMade <= fgAttempted and              *)
(* threeMade <= threeAttempted <= fgAttempted.                             *)
C7_LedgerInvariant ==
    \A k \in LedgerKeys :
        /\ ledger[k].fgMade <= ledger[k].fgAttempted
        /\ ledger[k].threeMade <= ledger[k].threeAttempted
        /\ ledger[k].threeAttempted <= ledger[k].fgAttempted

(* A ledger that has taken a made three and a missed three with a foul.    *)
C7_Witness ==
    \E k \in LedgerKeys :
        /\ ledger[k].threeMade = 1
        /\ ledger[k].threeAttempted = 2
        /\ ledger[k].fgMade = 1
        /\ ledger[k].fgAttempted = 2
        /\ ledger[k].fouls = 1
-----------------------------------------------------------------------------
(* Hot Streak Detector: detect_hot_streaks of lambda/ingestion/            *)
(* analyze_patterns.py (reads `action`) and of scripts/                    *)
(* analyze_patterns_v2.py (reads `type`, `text`, `scoring_play`).          *)

MaxHist == 4         \* plays appended to a history in SpecStreak

(* What happened on a play, and the play item each table holds for it.     *)
HotKinds == {"made", "missed", "ft_made", "ft_missed", "other"}

HotPlay(player, kind, q) == [player |-> player, kind |-> kind, quarter |-> q]

ActionOf(kind) ==
    CASE kind = "made" -> {"made", "two"}
      [] kind = "missed" -> {"missed", "two"}
      [] kind = "ft_made" -> {"made", "free throw"}
      [] kind = "ft_missed" -> {"missed", "free throw"}
      [] OTHER -> {"rebound"}

TextOf(kind) ==
    CASE kind = "made" -> {"made", "jumper"}
      [] kind = "missed" -> {"missed", "jumper"}
      [] kind = "ft_made" -> {"made", "free throw"}
      [] kind = "ft_missed" -> {"missed", "free throw"}
      [] OTHER -> {"rebound"}

TypeOf(kind) ==
    CASE kind \in {"made", "missed"} -> {"jumpshot"}
      [] kind = "ft_made" -> {"madefreethrow"}
      [] kind = "ft_missed" -> {"missedfreethrow"}
      [] OTHER -> {"rebound"}

TeamOfPlayer(player) == IF player = "p2" THEN "Miami" ELSE "Iowa"
TeamIdOfPlayer(player) == IF player = "p2" THEN "A1" ELSE "2294"

(* The item of the live table (PK/SK schema) and of the season table.      *)
LivePlay(h) ==
    [playerId |-> h.player, action |-> ActionOf(h.kind), team |-> TeamOfPlayer(h.player),
     quarter |-> h.quarter]

SeasonPlay(h) ==
    [player_id |-> h.player, type |-> TypeOf(h.kind), text |-> TextOf(h.kind),
     scoring_play |-> h.kind \in {"made", "ft_made"},
     team_id |-> TeamIdOfPlayer(h.player), period |-> h.quarter]

NoStreak == [count |-> 0, team |-> "", last_period |-> 0]

StreakStart(players) ==
    [player_streaks |-> [p \in players |-> NoStreak], hot_streaks |-> <<>>]

(* One iteration of the loop with `del player_streaks[player_id]` left out *)
(* of the miss branch.                                                     *)
hot_streak_step_noReset(st, play) ==
    LET player_id == play.playerId
        is_free_throw == Has(play.action, "free")
        is_made_shot == Has(play.action, "made") /\ ~is_free_throw
        cur == st.player_streaks[player_id]
        streak == [count |-> cur.count + 1,
                   team |-> IF cur.count = 0 THEN play.team ELSE cur.team,
                   last_period |-> play.quarter]
    IN  IF player_id = "" \/ ~is_made_shot THEN st
        ELSE [player_streaks |-> [st.player_streaks EXCEPT ![player_id] = streak],
              hot_streaks |->
                  IF streak.count >= 3
                  THEN Append(st.hot_streaks,
                              [player_id |-> player_id, team |-> streak.team,
                               consecutive_makes |-> streak.count,
                               quarter |-> play.quarter])
                  ELSE st.hot_streaks]

(* One iteration of the loop with the free-throw test left out of the     *)
(* classification of a made shot.                                          *)
hot_streak_step_ftCounts(st, play) ==
    LET player_id == play.playerId
        action == play.action
        is_made_shot == Has(action, "made")
        is_missed_shot == Has(action, "missed") /\ ~Has(action, "free")
        cur == st.player_streaks[player_id]
        streak == [count |-> cur.count + 1,
                   team |-> IF cur.count = 0 THEN play.team ELSE cur.team,
                   last_period |-> play.quarter]
    IN  IF player_id = "" THEN st
        ELSE IF is_made_shot
        THEN [player_streaks |-> [st.player_streaks EXCEPT ![player_id] = streak],
              hot_streaks |->
                  IF streak.count >= 3
                  THEN Append(st.hot_streaks,
                              [player_id |-> player_id, team |-> streak.team,
                               consecutive_makes |-> streak.count,
                               quarter |-> play.quarter])
                  ELSE st.hot_streaks]
        ELSE IF is_missed_shot
        THEN [st EXCEPT !.player_streaks[player_id] = NoStreak]
        ELSE st

(* analyze_patterns.py lines 171-213: one iteration of the loop.  An       *)
(* absent player_streaks entry is the entry with count 0.                  *)
hot_streak_step(st, play) ==
    LET player_id == play.playerId
        action == play.action
        is_free_throw == Has(action, "free")
        is_made_shot == Has(action, "made") /\ ~is_free_throw
        is_missed_shot == Has(action, "missed") /\ ~is_free_throw
        cur == st.player_streaks[player_id]
        streak == [count |-> cur.count + 1,
                   team |-> IF cur.count = 0 THEN play.team ELSE cur.team,
                   last_period |-> play.quarter]
    IN  IF player_id = "" THEN st
        ELSE IF is_made_shot
        THEN [player_streaks |-> [st.player_streaks EXCEPT ![player_id] = streak],
              hot_streaks |->
                  IF streak.count >= 3
                  THEN Append(st.hot_streaks,
                              [player_id |-> player_id, team |-> streak.team,
                               consecutive_makes |-> streak.count,
                               quarter |-> play.quarter])
                  ELSE st.hot_streaks]
        ELSE IF is_missed_shot
        THEN [st EXCEPT !.player_streaks[player_id] = NoStreak]
        ELSE st

(* One iteration of the season loop recording the period in which the     *)
(* streak began instead of the period of the current play.                 *)
hot_streak_step_v2_firstPeriod(st, play) ==
    LET player_id == play.player_id
        play_type == play.type
        text_lower == play.text
        is_made_shot ==
            play.scoring_play /\
            (Has(text_lower, "made") \/ Has(play_type, "shot") \/ Has(play_type, "layup")
             \/ Has(play_type, "dunk") \/ Has(play_type, "jumper"))
        is_missed_shot == Has(text_lower, "missed") \/ Has(play_type, "miss")
        cur == st.player_streaks[player_id]
        streak == [count |-> cur.count + 1,
                   team |-> IF cur.count = 0 THEN play.team_id ELSE cur.team,
                   last_period |-> IF cur.count = 0 THEN play.period ELSE cur.last_period]
    IN  IF player_id = "" THEN st
        ELSE IF Has(play_type, "free throw") \/ Has(text_lower, "free throw") THEN st
        ELSE IF is_made_shot
        THEN [player_streaks |-> [st.player_streaks EXCEPT ![player_id] = streak],
              hot_streaks |->
                  IF streak.count >= 3
                  THEN Append(st.hot_streaks,
                              [player_id |-> player_id, team |-> streak.team,
                               consecutive_makes |-> streak.count,
                               quarter |-> streak.last_period])
                  ELSE st.hot_streaks]
        ELSE IF is_missed_shot
        THEN [st EXCEPT !.player_streaks[player_id] = NoStreak]
        ELSE st

(* analyze_patterns_v2.py lines 258-313: one iteration of the loop.        *)
hot_streak_step_v2(st, play) ==
    LET player_id == play.player_id
        play_type == play.type
        text_lower == play.text
        is_made_shot ==
            play.scoring_play /\
            (Has(text_lower, "made") \/ Has(play_type, "shot") \/ Has(play_type, "layup")
             \/ Has(play_type, "dunk") \/ Has(play_type, "jumper"))
        is_missed_shot == Has(text_lower, "missed") \/ Has(play_type, "miss")
        cur == st.player_streaks[player_id]
        streak == [count |-> cur.count + 1,
                   team |-> IF cur.count = 0 THEN play.team_id ELSE cur.team,
                   last_period |-> play.period]
    IN  IF player_id = "" THEN st
        ELSE IF Has(play_type, "free throw") \/ Has(text_lower, "free throw") THEN st
        ELSE IF is_made_shot
        THEN [player_streaks |-> [st.player_streaks EXCEPT ![player_id] = streak],
              hot_streaks |->
                  IF streak.count >= 3
                  THEN Append(st.hot_streaks,
                              [player_id |-> player_id, team |-> streak.team,
                               consecutive_makes |-> streak.count,
                               quarter |-> streak.last_period])
                  ELSE st.hot_streaks]
        ELSE IF is_missed_shot
        THEN [st EXCEPT !.player_streaks[player_id] = NoStreak]
        ELSE st

HotPlayers == {"p1", "p2", ""}

RECURSIVE hot_streak_scan(_, _)
hot_streak_scan(plays, n) ==
    IF n = 0 THEN StreakStart(HotPlayers)
    ELSE hot_streak_step(hot_streak_scan(plays, n - 1), LivePlay(plays[n]))

RECURSIVE hot_streak_scan_v2(_, _)
hot_streak_scan_v2(plays, n) ==
    IF n = 0 THEN StreakStart(HotPlayers)
    ELSE hot_streak_step_v2(hot_streak_scan_v2(plays, n - 1), SeasonPlay(plays[n]))

IndexOfPlayer(best, player_id) ==
    IF \E i \in 1..Len(best) : best[i].player_id = player_id
    THEN CHOOSE i \in 1..Len(best) : best[i].player_id = player_id
    ELSE 0

(* The deduplication keeping a player's first candidate.                   *)
RECURSIVE best_streaks_first(_, _)
best_streaks_first(hot_streaks, n) ==
    IF n = 0 THEN <<>>
    ELSE LET best == best_streaks_first(hot_streaks, n - 1)
             streak == hot_streaks[n]
         IN  IF IndexOfPlayer(best, streak.player_id) = 0 THEN Append(best, streak)
             ELSE best

(* Lines 215-222 (v2: 315-322): best_streaks, a dict in insertion order,   *)
(* after the first n candidates; list(best_streaks.values()) is returned.  *)
RECURSIVE best_streaks(_, _)
best_streaks(hot_streaks, n) ==
    IF n = 0 THEN <<>>
    ELSE LET best == best_streaks(hot_streaks, n - 1)
             streak == hot_streaks[n]
             i == IndexOfPlayer(best, streak.player_id)
         IN  IF i = 0 THEN Append(best, streak)
             ELSE IF streak.consecutive_makes > best[i].consecutive_makes
             THEN [best EXCEPT ![i] = streak]
             ELSE best
-----------------------------------------------------------------------------
(* SpecStreak: a game's plays arrive, then one analysis run computes the   *)
(* hot streaks with both detectors.                                        *)

Rep(x, n) == [i \in 1..n |-> x]

(* Histories an analysis may start from: M M M miss M M M and five makes   *)
(* in a row, both by one player.                                           *)
HistReset ==
    Rep(HotPlay("p1", "made", 1), 3) \o <<HotPlay("p1", "missed", 1)>>
        \o Rep(HotPlay("p1", "made", 2), 3)

HistFive == Rep(HotPlay("p1", "made", 1), 5)

HotHistories == { <<>>, HistReset, HistFive }

AppendKinds ==
    ({"p1"} \X HotKinds) \cup ({"p2"} \X {"made", "missed"}) \cup ({""} \X {"other"})

QuarterAt(n) == IF n <= 2 THEN 1 ELSE 2

InitStreak ==
    /\ InitProc /\ InitIngestIdle /\ InitRunIdle /\ InitRestIdle
    /\ hotPlays \in HotHistories
    /\ pcHot = "collect"
    /\ hotCands = <<>>
    /\ hotOut = <<>>
    /\ hotCands2 = <<>>
    /\ hotOut2 = <<>>

AppendPlay(pk) ==
    /\ pcHot = "collect"
    /\ Len(hotPlays) < MaxHist
    /\ hotPlays' = Append(hotPlays, HotPlay(pk[1], pk[2], QuarterAt(Len(hotPlays) + 1)))
    /\ UNCHANGED <<pcHot, hotCands, hotOut, hotCands2, hotOut2>>
    /\ UNCHANGED <<procVars, ingestVars, runVars, momVars, patVars, crashVars, fetchVars, wsVars>>

(* analyze_game: detect_hot_streaks(plays) over the whole history.         *)
AnalyzeStreaks ==
    /\ pcHot = "collect"
    /\ pcHot' = "analyzed"
    /\ LET c1 == hot_streak_scan(hotPlays, Len(hotPlays)).hot_streaks
           c2 == hot_streak_scan_v2(hotPlays, Len(hotPlays)).hot_streaks
       IN  /\ hotCands' = c1
           /\ hotOut' = best_streaks(c1, Len(c1))
           /\ hotCands2' = c2
           /\ hotOut2' = best_streaks(c2, Len(c2))
    /\ UNCHANGED hotPlays
    /\ UNCHANGED <<procVars, ingestVars, runVars, momVars, patVars, crashVars, fetchVars, wsVars>>

NextStreak ==
    \/ \E pk \in AppendKinds : AppendPlay(pk)
    \/ AnalyzeStreaks

SpecStreak == InitStreak /\ [][NextStreak]_vars

MadeFG(h, p) == h.player = p /\ h.kind = "made"
MissedFG(h, p) == h.player = p /\ h.kind = "missed"

(* The longest run of made field goals of player p with no missed field    *)
(* goal of p in between.                                                   *)
LongestRun(plays, p) ==
    LET runs == { Cardinality({ k \in i..j : MadeFG(plays[k], p) }) :
                    <<i, j>> \in { ij \in (1..Len(plays)) \X (1..Len(plays)) :
                                      /\ ij[1] <= ij[2]
                                      /\ \A k \in ij[1]..ij[2] : ~MissedFG(plays[k], p) } }
    IN  IF runs = {} THEN 0 ELSE CHOOSE m \in runs : \A r \in runs : r <= m

Makes(cands) == [i \in 1..Len(cands) |-> cands[i].consecutive_makes]

BoundedByRun(cands) ==
    \A i \in 1..Len(cands) :
        cands[i].consecutive_makes <= LongestRun(hotPlays, cands[i].player_id)

(* C9: a miss resets the counter, so no reported consecutive_makes exceeds *)
(* the player's longest miss-free run of made field goals, and             *)
(* M M M miss M M M gives two candidates of 3 and a deduplicated result of *)
(* 3 (both detectors).                                                     *)
C9_MissResetsStreak ==
    pcHot = "analyzed" =>
        /\ BoundedByRun(hotCands) /\ BoundedByRun(hotOut)
        /\ BoundedByRun(hotCands2) /\ BoundedByRun(hotOut2)
        /\ hotPlays = HistReset =>
               /\ Makes(hotCands) = <<3, 3>> /\ Makes(hotOut) = <<3>>
               /\ Makes(hotCands2) = <<3, 3>> /\ Makes(hotOut2) = <<3>>

C9_Witness ==
    /\ pcHot = "analyzed"
    /\ hotPlays = HistReset
    /\ Len(hotCands) = 2 /\ Len(hotOut) = 1

MaxMakes(cands, p) ==
    LET ms == { cands[i].consecutive_makes :
                  i \in { j \in 1..Len(cands) : cands[j].player_id = p } }
    IN  IF ms = {} THEN 0 ELSE CHOOSE m \in ms : \A r \in ms : r <= m

OnePerPlayerLongest(cands, out) ==
    \A p \in HotPlayers :
        LET recs == { i \in 1..Len(out) : out[i].player_id = p }
        IN  /\ Cardinality(recs) <= 1
            /\ (MaxMakes(cands, p) > 0) = (recs # {})
            /\ \A i \in recs : out[i].consecutive_makes = MaxMakes(cands, p)

(* C10: the output holds at most one HotStreak per player, with the        *)
(* largest consecutive_makes among that player's candidates; five makes in *)
(* a row give exactly one record, of 5 (both detectors).                   *)
C10_OneLongestPerPlayer ==
    pcHot = "analyzed" =>
        /\ OnePerPlayerLongest(hotCands, hotOut)
        /\ OnePerPlayerLongest(hotCands2, hotOut2)
        /\ hotPlays = HistFive =>
               /\ Makes(hotOut) = <<5>> /\ hotOut[1].player_id = "p1"
               /\ Makes(hotOut2) = <<5>> /\ hotOut2[1].player_id = "p1"

C10_Witness ==
    /\ pcHot = "analyzed"
    /\ hotPlays = HistFive
    /\ Makes(hotCands) = <<3, 4, 5>>
    /\ Len(hotOut) = 1
-----------------------------------------------------------------------------
(* Scoring Run Detector: find_all_runs_by_quarter and deduplicate_runs of  *)
(* lambda/ingestion/analyze_patterns.py, find_scoring_runs of scripts/     *)
(* analyze_patterns_v2.py.                                                 *)

MaxBlocks == 2       \* blocks of plays appended to a history in SpecRuns

(* What happened on a play (which side, how many points), and the play     *)
(* item each table holds for it.                                           *)
RunPlay(side, pts, q) == [side |-> side, pts |-> pts, quarter |-> q]

HomeTeam == "Iowa"
AwayTeam == "Miami"
IowaTeamId == "2294"
OpponentTeamId == "A1"

LiveRunPlay(h, k) ==
    [team |-> IF h.side = "home" THEN HomeTeam ELSE AwayTeam,
     scoringPlay |-> h.pts > 0, pointsScored |-> h.pts, quarter |-> h.quarter, SK |-> k]

SeasonRunPlay(h, k) ==
    [team_id |-> IF h.side = "home" THEN IowaTeamId ELSE OpponentTeamId,
     scoring_play |-> h.pts > 0, score_value |-> h.pts, period |-> h.quarter,
     sequence |-> k]

LiveRunPlays(hist) == [k \in 1..Len(hist) |-> LiveRunPlay(hist[k], k)]
SeasonRunPlays(hist) == [k \in 1..Len(hist) |-> SeasonRunPlay(hist[k], k)]

NoRun ==
    [found |-> FALSE, team |-> "", points_for |-> 0, points_against |-> 0,
     window_size |-> 0, quarter |-> 0, start_play |-> 0,
     window_start_sk |-> 0, window_end_sk |-> 0]

RECURSIVE WindowPoints(_, _, _)
WindowPoints(window, n, team) ==
    IF n = 0 THEN 0
    ELSE WindowPoints(window, n - 1, team)
         + (IF window[n].scoringPlay /\ window[n].team = team
            THEN window[n].pointsScored ELSE 0)

RunThresholds(window_size) ==
    CASE window_size = 25 -> <<8, 2>>
      [] window_size = 50 -> <<16, 4>>
      [] window_size = 75 -> <<20, 6>>
      [] window_size = 120 -> <<20, 8>>
      [] OTHER -> <<8, 2>>

detect_run_in_window(window, home_team, away_team, window_size) ==
    LET home_pts == WindowPoints(window, Len(window), home_team)
        away_pts == IF away_team = home_team THEN 0
                    ELSE WindowPoints(window, Len(window), away_team)
        min_points == RunThresholds(window_size)[1]
        max_opponent == RunThresholds(window_size)[2]
    IN  IF home_pts >= min_points /\ away_pts <= max_opponent
        THEN [NoRun EXCEPT !.found = TRUE, !.team = home_team, !.points_for = home_pts,
                           !.points_against = away_pts, !.window_size = window_size]
        ELSE IF away_pts >= min_points /\ home_pts <= max_opponent
        THEN [NoRun EXCEPT !.found = TRUE, !.team = away_team, !.points_for = away_pts,
                           !.points_against = home_pts, !.window_size = window_size]
        ELSE NoRun

(* The inner loop of analyze_quarter_runs for one window size.             *)
quarter_window_runs(quarter_plays, home_team, away_team, quarter_num, window_size) ==
    IF window_size > Len(quarter_plays) THEN <<>>
    ELSE LET all == [i \in 1..(Len(quarter_plays) - window_size + 1) |->
                       [detect_run_in_window(SubSeq(quarter_plays, i, i + window_size - 1),
                                             home_team, away_team, window_size)
                          EXCEPT !.quarter = quarter_num, !.start_play = i - 1,
                                 !.window_start_sk = quarter_plays[i].SK,
                                 !.window_end_sk = quarter_plays[i + window_size - 1].SK]]
         IN  SelectSeq(all, LAMBDA run : run.found)

(* analyze_quarter_runs trying the window sizes largest first.             *)
analyze_quarter_runs_maxFirst(quarter_plays, home_team, away_team, quarter_num) ==
    IF Len(quarter_plays) < 25 THEN <<>>
    ELSE LET max_window == Min(Len(quarter_plays), 120)
             W(ws) == quarter_window_runs(quarter_plays, home_team, away_team,
                                          quarter_num, ws)
         IN  W(max_window) \o W(75) \o W(50) \o W(25)

analyze_quarter_runs(quarter_plays, home_team, away_team, quarter_num) ==
    IF Len(quarter_plays) < 25 THEN <<>>
    ELSE LET max_window == Min(Len(quarter_plays), 120)
             W(ws) == quarter_window_runs(quarter_plays, home_team, away_team,
                                          quarter_num, ws)
         IN  W(25) \o W(50) \o W(75) \o W(max_window)

RECURSIVE runs_of_quarters(_, _, _, _)
runs_of_quarters(qs, plays, home_team, away_team) ==
    IF qs = {} THEN <<>>
    ELSE LET quarter_num == CHOOSE q \in qs : \A r \in qs : q <= r
             quarter_plays == SelectSeq(plays, LAMBDA p : p.quarter = quarter_num)
         IN  analyze_quarter_runs(quarter_plays, home_team, away_team, quarter_num)
               \o runs_of_quarters(qs \ {quarter_num}, plays, home_team, away_team)

find_all_runs_by_quarter(plays, home_team, away_team) ==
    runs_of_quarters({ plays[k].quarter : k \in 1..Len(plays) }, plays,
                     home_team, away_team)

(* best_runs of deduplicate_runs after the first n runs, in the dict's     *)
(* insertion order; the second definition replaces the kept run without    *)
(* comparing points_for.                                                   *)
RECURSIVE best_runs_keepLast(_, _)
best_runs_keepLast(runs, n) ==
    IF n = 0 THEN <<>>
    ELSE LET prev == best_runs_keepLast(runs, n - 1)
             run == runs[n]
             at == { i \in 1..Len(prev) :
                       prev[i].quarter = run.quarter /\ prev[i].team = run.team }
         IN  IF at = {} THEN Append(prev, run)
             ELSE [prev EXCEPT ![CHOOSE i \in at : TRUE] = run]

RECURSIVE best_runs(_, _)
best_runs(runs, n) ==
    IF n = 0 THEN <<>>
    ELSE LET prev == best_runs(runs, n - 1)
             run == runs[n]
             at == { i \in 1..Len(prev) :
                       prev[i].quarter = run.quarter /\ prev[i].team = run.team }
         IN  IF at = {} THEN Append(prev, run)
             ELSE LET i == CHOOSE j \in at : TRUE
                  IN  IF run.points_for > prev[i].points_for
                      THEN [prev EXCEPT ![i] = run]
                      ELSE prev

(* unique_runs.sort(key=(quarter, -points_for)): a stable sort.            *)
RunKeyLess(a, b) ==
    \/ a.quarter < b.quarter
    \/ a.quarter = b.quarter /\ a.points_for > b.points_for

RECURSIVE sort_runs(_, _)
sort_runs(runs, n) ==
    IF n = 0 THEN <<>>
    ELSE LET sorted == sort_runs(runs, n - 1)
             run == runs[n]
             k == Cardinality({ i \in 1..Len(sorted) : ~RunKeyLess(run, sorted[i]) })
         IN  SubSeq(sorted, 1, k) \o <<run>> \o SubSeq(sorted, k + 1, Len(sorted))

deduplicate_runs(runs) ==
    IF runs = <<>> THEN <<>>
    ELSE LET unique_runs == best_runs(runs, Len(runs))
         IN  sort_runs(unique_runs, Len(unique_runs))

(* ---- scripts/analyze_patterns_v2.py ----                                *)

RECURSIVE WindowPoints_v2(_, _, _)
WindowPoints_v2(window, n, team_id) ==
    IF n = 0 THEN 0
    ELSE WindowPoints_v2(window, n - 1, team_id)
         + (IF window[n].scoring_play /\ window[n].team_id = team_id
            THEN window[n].score_value ELSE 0)

RunThresholds_v2(window_size) ==
    CASE window_size = 25 -> <<8, 2>>
      [] window_size = 50 -> <<14, 4>>
      [] window_size = 75 -> <<18, 6>>
      [] window_size = 100 -> <<22, 8>>
      [] OTHER -> <<8, 2>>

detect_scoring_run_v2(window, iowa_team_id, opponent_team_id, window_size) ==
    LET iowa_pts == WindowPoints_v2(window, Len(window), iowa_team_id)
        opponent_pts == IF opponent_team_id = iowa_team_id THEN 0
                        ELSE WindowPoints_v2(window, Len(window), opponent_team_id)
        min_points == RunThresholds_v2(window_size)[1]
        max_opponent == RunThresholds_v2(window_size)[2]
    IN  IF iowa_pts >= min_points /\ opponent_pts <= max_opponent
        THEN [found |-> TRUE, is_iowa |-> TRUE,
              points_for |-> iowa_pts, points_against |-> opponent_pts]
        ELSE IF opponent_pts >= min_points /\ iowa_pts <= max_opponent
        THEN [found |-> TRUE, is_iowa |-> FALSE,
              points_for |-> opponent_pts, points_against |-> iowa_pts]
        ELSE [found |-> FALSE, is_iowa |-> FALSE, points_for |-> 0, points_against |-> 0]

period_window_runs(period_plays, iowa_team_id, opponent_team_id, iowa_name, opponent_name, period, window_size) ==
    IF window_size > Len(period_plays) THEN <<>>
    ELSE LET at(i) == detect_scoring_run_v2(SubSeq(period_plays, i, i + window_size - 1),
                                            iowa_team_id, opponent_team_id, window_size)
             all == [i \in 1..(Len(period_plays) - window_size + 1) |->
                       LET run == at(i)
                       IN  [found |-> run.found,
                            team |-> IF run.is_iowa THEN iowa_name ELSE opponent_name,
                            points_for |-> run.points_for,
                            points_against |-> run.points_against,
                            window_size |-> window_size,
                            quarter |-> period,
                            start_play |-> period_plays[i].sequence,
                            end_play |-> period_plays[i + window_size - 1].sequence]]
         IN  SelectSeq(all, LAMBDA run : run.found)

period_runs_v2(period_plays, iowa_team_id, opponent_team_id, iowa_name, opponent_name, period) ==
    LET W(ws) == period_window_runs(period_plays, iowa_team_id, opponent_team_id,
                                    iowa_name, opponent_name, period, ws)
    IN  W(25) \o W(50) \o W(75)

RECURSIVE best_runs_v2(_, _)
best_runs_v2(period_runs, n) ==
    IF n = 0 THEN <<>>
    ELSE LET prev == best_runs_v2(period_runs, n - 1)
             run == period_runs[n]
             at == { i \in 1..Len(prev) :
                       prev[i].quarter = run.quarter /\ prev[i].team = run.team }
         IN  IF at = {} THEN Append(prev, run)
             ELSE LET i == CHOOSE j \in at : TRUE
                  IN  IF run.points_for > prev[i].points_for
                      THEN [prev EXCEPT ![i] = run]
                      ELSE prev

RECURSIVE runs_of_periods(_, _, _, _, _, _)
runs_of_periods(ps, plays, iowa_team_id, opponent_team_id, iowa_name, opponent_name) ==
    IF ps = {} THEN <<>>
    ELSE LET period == CHOOSE q \in ps : \A r \in ps : q <= r
             period_plays == SelectSeq(plays, LAMBDA p : p.period = period)
             period_runs == period_runs_v2(period_plays, iowa_team_id, opponent_team_id,
                                           iowa_name, opponent_name, period)
             rest == runs_of_periods(ps \ {period}, plays, iowa_team_id,
                                     opponent_team_id, iowa_name, opponent_name)
         IN  IF Len(period_plays) < 25 THEN rest
             ELSE best_runs_v2(period_runs, Len(period_runs)) \o rest

find_scoring_runs(plays, iowa_team_id, opponent_team_id, iowa_name, opponent_name) ==
    runs_of_periods({ plays[k].period : k \in 1..Len(plays) }, plays,
                    iowa_team_id, opponent_team_id, iowa_name, opponent_name)

-----------------------------------------------------------------------------
(* SpecRuns: a game's plays arrive in blocks of like plays, then one       *)
(* analysis run computes the scoring runs with both detectors.             *)

BlockKinds == { <<"home", 2>>, <<"home", 3>>, <<"away", 2>>, <<"home", 0>> }
BlockLens == {4, 25}
RunQuarters == {1, 2}
RunTeams == {HomeTeam, AwayTeam}

InitRuns ==
    /\ InitProc /\ InitIngestIdle /\ InitHotIdle /\ InitRestIdle
    /\ runPlays = <<>>
    /\ pcRun = "collect"
    /\ runAll = <<>>
    /\ runOut = <<>>
    /\ runOut2 = <<>>

BlocksOf(hist) ==
    Cardinality({ k \in 1..Len(hist) : k = 1 \/ hist[k] # hist[k - 1] })

AddBlock(bk, len, q) ==
    /\ pcRun = "collect"
    /\ LET play == RunPlay(bk[1], bk[2], q)
       IN  /\ IF Len(runPlays) = 0 THEN TRUE
              ELSE runPlays[Len(runPlays)] # play /\ BlocksOf(runPlays) < MaxBlocks
           /\ runPlays' = runPlays \o Rep(play, len)
    /\ UNCHANGED <<pcRun, runAll, runOut, runOut2>>
    /\ UNCHANGED <<procVars, ingestVars, hotVars, momVars, patVars, crashVars, fetchVars, wsVars>>

(* analyze_game: the scoring-run part of both scripts.                     *)
AnalyzeRuns ==
    /\ pcRun = "collect"
    /\ pcRun' = "analyzed"
    /\ LET all_runs == find_all_runs_by_quarter(LiveRunPlays(runPlays), HomeTeam, AwayTeam)
       IN  /\ runAll' = all_runs
           /\ runOut' = deduplicate_runs(all_runs)
    /\ runOut2' = find_scoring_runs(SeasonRunPlays(runPlays), IowaTeamId, OpponentTeamId,
                                    HomeTeam, AwayTeam)
    /\ UNCHANGED runPlays
    /\ UNCHANGED <<procVars, ingestVars, hotVars, momVars, patVars, crashVars, fetchVars, wsVars>>

NextRuns ==
    \/ \E bk \in BlockKinds, len \in BlockLens, q \in RunQuarters : AddBlock(bk, len, q)
    \/ AnalyzeRuns

SpecRuns == InitRuns /\ [][NextRuns]_vars

(* points_for of every qualifying window of (q, team), by the live         *)
(* detector's window sizes and thresholds.                                 *)
QualPoints(q, team) ==
    LET qp == SelectSeq(LiveRunPlays(runPlays), LAMBDA p : p.quarter = q)
        sizes == IF Len(qp) < 25 THEN {}
                 ELSE { ws \in {25, 50, 75, Min(Len(qp), 120)} : ws <= Len(qp) }
        wins == { detect_run_in_window(SubSeq(qp, w[2], w[2] + w[1] - 1),
                                       HomeTeam, AwayTeam, w[1]) :
                    w \in { x \in sizes \X (1..Len(qp)) : x[2] + x[1] - 1 <= Len(qp) } }
    IN  { r.points_for : r \in { x \in wins : x.found /\ x.team = team } }

QualPoints_v2(q, team) ==
    LET qp == SelectSeq(SeasonRunPlays(runPlays), LAMBDA p : p.period = q)
        sizes == IF Len(qp) < 25 THEN {} ELSE { ws \in {25, 50, 75} : ws <= Len(qp) }
        wins == { detect_scoring_run_v2(SubSeq(qp, w[2], w[2] + w[1] - 1),
                                        IowaTeamId, OpponentTeamId, w[1]) :
                    w \in { x \in sizes \X (1..Len(qp)) : x[2] + x[1] - 1 <= Len(qp) } }
    IN  { r.points_for :
            r \in { x \in wins : x.found /\ x.is_iowa = (team = HomeTeam) } }

OneBestRun(out, q, team, qual) ==
    LET recs == { i \in 1..Len(out) : out[i].quarter = q /\ out[i].team = team }
    IN  /\ Cardinality(recs) <= 1
        /\ (recs # {}) = (qual # {})
        /\ \A i \in recs : /\ out[i].points_for \in qual
                           /\ \A pf \in qual : pf <= out[i].points_for

(* C8: the deduplicated scoring-run output holds at most one run per       *)
(* (period, team), and its points_for is the maximum points_for over all   *)
(* qualifying windows of that pair (both detectors).                       *)
C8_OneBestRunPerPeriodTeam ==
    pcRun = "analyzed" =>
        \A q \in RunQuarters, team \in RunTeams :
            /\ OneBestRun(runOut, q, team, QualPoints(q, team))
            /\ OneBestRun(runOut2, q, team, QualPoints_v2(q, team))

(* Overlapping windows of one (period, team) qualified with different      *)
(* points_for, a later one with fewer points than an earlier one.          *)
C8_Witness ==
    /\ pcRun = "analyzed"
    /\ \E i, j \in 1..Len(runAll) :
          /\ i < j
          /\ runAll[i].quarter = runAll[j].quarter /\ runAll[i].team = runAll[j].team
          /\ runAll[i].points_for > runAll[j].points_for
    /\ \E i, j \in 1..Len(runAll) :
          /\ i < j
          /\ runAll[i].quarter = runAll[j].quarter /\ runAll[i].team = runAll[j].team
          /\ runAll[i].points_for < runAll[j].points_for
    /\ Len(runOut) >= 1 /\ Len(runOut2) >= 1
-----------------------------------------------------------------------------
(* Momentum Shift Detector: detect_momentum_shifts of lambda/ingestion/    *)
(* analyze_patterns.py (the season script has no momentum detector).       *)

MaxShots == 5        \* plays appended to a history in SpecMomentum

Max(a, b) == IF a >= b THEN a ELSE b

Abs(x) == IF x < 0 THEN 0 - x ELSE x

(* The fields of a play item the detector reads; timestamp is the play's   *)
(* position in the game.                                                   *)
ScorePlay(hs, as, q, t) ==
    [homeScore |-> hs, awayScore |-> as, quarter |-> q, timestamp |-> t]

MomStart == [previous_leader |-> "none", max_deficit |-> 0, momentum_shifts |-> <<>>]

(* Lines 231-262: one iteration of the loop; previous_leader None is       *)
(* "none".                                                                 *)
momentum_step(st, play, home_team, away_team) ==
    LET home_score == play.homeScore
        away_score == play.awayScore
        margin == home_score - away_score
        current_leader == IF margin > 0 THEN "home"
                          ELSE IF margin < 0 THEN "away" ELSE "tied"
        max_deficit == IF current_leader = "tied" THEN st.max_deficit
                       ELSE Max(st.max_deficit, Abs(margin))
        lead_change == /\ st.previous_leader # "none"
                       /\ current_leader # "tied"
                       /\ current_leader # st.previous_leader
        team_name == IF current_leader = "home" THEN home_team ELSE away_team
    IN  [previous_leader |-> current_leader,
         max_deficit |-> IF lead_change THEN 0 ELSE max_deficit,
         momentum_shifts |->
             IF lead_change /\ max_deficit >= 1
             THEN Append(st.momentum_shifts,
                         [team |-> team_name, previous_deficit |-> max_deficit,
                          new_score |-> <<home_score, away_score>>,
                          quarter |-> play.quarter, timestamp |-> play.timestamp])
             ELSE st.momentum_shifts]

RECURSIVE momentum_scan(_, _, _, _)
momentum_scan(plays, n, home_team, away_team) ==
    IF n = 0 THEN MomStart
    ELSE momentum_step(momentum_scan(plays, n - 1, home_team, away_team), plays[n],
                       home_team, away_team)

detect_momentum_shifts(plays, home_team, away_team) ==
    momentum_scan(plays, Len(plays), home_team, away_team).momentum_shifts

-----------------------------------------------------------------------------
(* SpecMomentum: a game's plays arrive (each carries the running score),   *)
(* then one analysis run computes the momentum shifts.                     *)

(* The home team trails by up to 6 and goes ahead 61-60.                   *)
HistComeback ==
    <<ScorePlay(54, 60, 4, 1), ScorePlay(56, 60, 4, 2), ScorePlay(58, 60, 4, 3),
      ScorePlay(61, 60, 4, 4)>>

MomHistories == { <<>>, HistComeback }

ShotKinds == { <<"home", 0>>, <<"home", 1>>, <<"home", 2>>, <<"home", 3>>,
               <<"away", 1>>, <<"away", 2>>, <<"away", 3>> }

InitMomentum ==
    /\ InitProc /\ InitIngestIdle /\ InitHotIdle /\ InitRunIdle
    /\ InitPatIdle /\ InitCrashIdle /\ InitFetchIdle /\ InitWsIdle
    /\ momPlays \in MomHistories
    /\ pcMom = "collect"
    /\ momShifts = <<>>

AppendShot(sk) ==
    /\ pcMom = "collect"
    /\ Len(momPlays) < MaxShots
    /\ LET n == Len(momPlays)
           hs == IF n = 0 THEN 0 ELSE momPlays[n].homeScore
           as == IF n = 0 THEN 0 ELSE momPlays[n].awayScore
           q == IF n = 0 THEN 1 ELSE momPlays[n].quarter
       IN  momPlays' = Append(momPlays,
                              ScorePlay(hs + (IF sk[1] = "home" THEN sk[2] ELSE 0),
                                        as + (IF sk[1] = "away" THEN sk[2] ELSE 0),
                                        q, n + 1))
    /\ UNCHANGED <<pcMom, momShifts>>
    /\ UNCHANGED <<procVars, ingestVars, hotVars, runVars, patVars, crashVars, fetchVars, wsVars>>

(* analyze_game, lines 359-366: detect_momentum_shifts(plays, ...).        *)
AnalyzeMomentum ==
    /\ pcMom = "collect"
    /\ pcMom' = "analyzed"
    /\ momShifts' = detect_momentum_shifts(momPlays, HomeTeam, AwayTeam)
    /\ UNCHANGED momPlays
    /\ UNCHANGED <<procVars, ingestVars, hotVars, runVars, patVars, crashVars, fetchVars, wsVars>>

NextMomentum ==
    \/ \E sk \in ShotKinds : AppendShot(sk)
    \/ AnalyzeMomentum

SpecMomentum == InitMomentum /\ [][NextMomentum]_vars

Leader(k) ==
    IF momPlays[k].homeScore > momPlays[k].awayScore THEN "home"
    ELSE IF momPlays[k].homeScore < momPlays[k].awayScore THEN "away" ELSE "tied"

(* Play k takes the lead from the other team: the leaders after plays k-1  *)
(* and k are both non-tied and differ.                                     *)
LeadChangeAt(k) ==
    /\ k > 1
    /\ Leader(k) # "tied" /\ Leader(k - 1) # "tied"
    /\ Leader(k) # Leader(k - 1)

(* The largest margin by which the team leading after play k trailed since *)
(* the previous lead change (since the start when there was none).         *)
TrailedBy(k) ==
    LET since == IF \E j \in 1..(k - 1) : LeadChangeAt(j)
                 THEN CHOOSE j \in 1..(k - 1) :
                        LeadChangeAt(j) /\ \A i \in (j + 1)..(k - 1) : ~LeadChangeAt(i)
                 ELSE 1
        behind(j) == IF Leader(k) = "home"
                     THEN momPlays[j].awayScore - momPlays[j].homeScore
                     ELSE momPlays[j].homeScore - momPlays[j].awayScore
        ds == { behind(j) : j \in since..(k - 1) } \cup {0}
    IN  CHOOSE m \in ds : \A d \in ds : d <= m

(* C11: a MomentumShift is emitted on exactly the plays after which the    *)
(* leader and the leader after the previous play are both non-tied and     *)
(* differ, the new leader having trailed by >= 1 since the last lead       *)
(* change; taking the lead from a tied score (the first basket from 0-0)   *)
(* emits none.                                                             *)
C11_ShiftOnlyOnLeadChange ==
    pcMom = "analyzed" =>
        { momShifts[i].timestamp : i \in 1..Len(momShifts) }
            = { k \in 1..Len(momPlays) : LeadChangeAt(k) /\ TrailedBy(k) >= 1 }

(* C12: every emitted MomentumShift names the team leading after the       *)
(* triggering play and carries as previous_deficit the largest margin by   *)
(* which that team trailed since the previous lead change; trailing by up  *)
(* to 6 and going ahead 61-60 gives previous_deficit = 6.                  *)
C12_DeficitIsLargestTrailingMargin ==
    pcMom = "analyzed" =>
        /\ \A i \in 1..Len(momShifts) :
              LET k == momShifts[i].timestamp
              IN  /\ momShifts[i].team = (IF Leader(k) = "home" THEN HomeTeam ELSE AwayTeam)
                  /\ momShifts[i].previous_deficit = TrailedBy(k)
        /\ momPlays = HistComeback =>
              /\ Len(momShifts) = 1
              /\ momShifts[1].previous_deficit = 6
-----------------------------------------------------------------------------
(* Pattern Store: analyze_game of both scripts, detection and storing.     *)

MaxAnalyses == 2     \* runs of each script's analyze_game over one history

(* The histories analysed, 25 plays of quarter 1: one play, three like     *)
(* plays, a home three-pointer, then twenty plays without points.  A       *)
(* team's shots are taken by one player.                                   *)
PatternHistories ==
    { <<RunPlay(a[1], a[2], 1)>> \o Rep(RunPlay(b[1], b[2], 1), 3)
          \o <<RunPlay("home", 3, 1)>> \o Rep(RunPlay("home", 0, 1), 20) :
        a \in BlockKinds, b \in BlockKinds }

PlayerOfSide(side) == IF side = "home" THEN "p1" ELSE "p2"

StreakView(hist) ==
    [k \in 1..Len(hist) |->
        HotPlay(PlayerOfSide(hist[k].side),
                IF hist[k].pts > 0 THEN "made" ELSE "other", hist[k].quarter)]

RECURSIVE PointsUpTo(_, _, _)
PointsUpTo(hist, n, side) ==
    IF n = 0 THEN 0
    ELSE PointsUpTo(hist, n - 1, side) + (IF hist[n].side = side THEN hist[n].pts ELSE 0)

ScoreView(hist) ==
    [k \in 1..Len(hist) |->
        ScorePlay(PointsUpTo(hist, k, "home"), PointsUpTo(hist, k, "away"),
                  hist[k].quarter, k)]

(* The item store_pattern / store_hot_streak / store_momentum_shift puts,  *)
(* its timestamp read from the clock at the call.                          *)
store_pattern_item(game_id, run, timestamp) ==
    [PK |-> game_id, SK |-> <<"AI#PATTERN", timestamp, "">>,
     patternType |-> "scoring_run", detectedAt |-> timestamp,
     body |-> [team |-> run.team, pointsFor |-> run.points_for,
               pointsAgainst |-> run.points_against,
               windowStart |-> run.window_start_sk, windowEnd |-> run.window_end_sk]]

store_hot_streak_item(game_id, streak, timestamp) ==
    [PK |-> game_id, SK |-> <<"AI#PATTERN", timestamp, "HOTSTREAK">>,
     patternType |-> "hot_streak", detectedAt |-> timestamp,
     body |-> [playerId |-> streak.player_id, team |-> streak.team,
               consecutiveMakes |-> streak.consecutive_makes,
               quarter |-> streak.quarter]]

store_momentum_shift_item(game_id, shift, timestamp) ==
    [PK |-> game_id, SK |-> <<"AI#PATTERN", timestamp, "MOMENTUM">>,
     patternType |-> "momentum_shift", detectedAt |-> timestamp,
     body |-> [team |-> shift.team, previousDeficit |-> shift.previous_deficit,
               newScore |-> shift.new_score, quarter |-> shift.quarter]]

(* put_item: an item with the same (PK, SK) is replaced.                   *)
PutItem(tbl, item) ==
    { i \in tbl : ~(i.PK = item.PK /\ i.SK = item.SK) } \cup {item}

RECURSIVE PutAll(_, _, _)
PutAll(tbl, items, n) ==
    IF n = 0 THEN tbl ELSE PutItem(PutAll(tbl, items, n - 1), items[n])

AnalysedGame == "GAME#1"

(* lambda/ingestion/analyze_patterns.py analyze_game: detect, then store   *)
(* the runs, the hot streaks and the momentum shifts, one put_item each.   *)
AnalyzeGame ==
    /\ analyses["live"] < MaxAnalyses
    /\ analyses' = [analyses EXCEPT !["live"] = @ + 1]
    /\ LET all_runs == find_all_runs_by_quarter(LiveRunPlays(runPlays), HomeTeam, AwayTeam)
           unique_runs == deduplicate_runs(all_runs)
           cands == hot_streak_scan(StreakView(runPlays), Len(runPlays)).hot_streaks
           hot_streaks == best_streaks(cands, Len(cands))
           momentum_shifts == detect_momentum_shifts(ScoreView(runPlays), HomeTeam, AwayTeam)
           nr == Len(unique_runs)
           nh == Len(hot_streaks)
           nm == Len(momentum_shifts)
           items == [i \in 1..(nr + nh + nm) |->
                       IF i <= nr
                       THEN store_pattern_item(AnalysedGame, unique_runs[i], now + i - 1)
                       ELSE IF i <= nr + nh
                       THEN store_hot_streak_item(AnalysedGame, hot_streaks[i - nr],
                                                  now + i - 1)
                       ELSE store_momentum_shift_item(AnalysedGame,
                                                      momentum_shifts[i - nr - nh],
                                                      now + i - 1)]
       IN  /\ patternTbl' = PutAll(patternTbl, items, Len(items))
           /\ now' = now + Len(items)
    /\ UNCHANGED <<patternTbl2, stream>>
    /\ UNCHANGED <<procVars, hotVars, runVars, momVars, crashVars, fetchVars, wsVars>>

store_pattern_v2(game_id, pattern_type, pat, index, timestamp) ==
    [PK |-> game_id, SK |-> <<"PATTERN", pattern_type, index>>,
     patternType |-> pattern_type, detectedAt |-> timestamp,
     body |-> IF pattern_type = "scoring_run"
              THEN [team |-> pat.team, period |-> pat.quarter,
                    points_for |-> pat.points_for,
                    points_against |-> pat.points_against,
                    start_sequence |-> pat.start_play,
                    end_sequence |-> pat.end_play]
              ELSE [team |-> pat.team, period |-> pat.quarter,
                    player_id |-> pat.player_id,
                    consecutive_makes |-> pat.consecutive_makes]]

(* scripts/analyze_patterns_v2.py analyze_game (clear_existing = True):    *)
(* the game's PATTERN# items are deleted, then the runs and the hot        *)
(* streaks are stored under PATTERN#<type>#<index>.                        *)
AnalyzeGameV2 ==
    /\ analyses["season"] < MaxAnalyses
    /\ analyses' = [analyses EXCEPT !["season"] = @ + 1]
    /\ LET scoring_runs == find_scoring_runs(SeasonRunPlays(runPlays), IowaTeamId,
                                             OpponentTeamId, HomeTeam, AwayTeam)
           cands == hot_streak_scan_v2(StreakView(runPlays), Len(runPlays)).hot_streaks
           hot_streaks == best_streaks(cands, Len(cands))
           nr == Len(scoring_runs)
           nh == Len(hot_streaks)
           cleared == { i \in patternTbl2 : i.PK # AnalysedGame }
           items == [i \in 1..(nr + nh) |->
                       IF i <= nr
                       THEN store_pattern_v2(AnalysedGame, "scoring_run", scoring_runs[i],
                                             i, now + i - 1)
                       ELSE store_pattern_v2(AnalysedGame, "hot_streak",
                                             hot_streaks[i - nr], i, now + i - 1)]
       IN  /\ patternTbl2' = PutAll(cleared, items, Len(items))
           /\ now' = now + Len(items)
    /\ UNCHANGED <<patternTbl, stream>>
    /\ UNCHANGED <<procVars, hotVars, runVars, momVars, crashVars, fetchVars, wsVars>>

InitPatterns ==
    /\ InitProc /\ InitIngestIdle /\ InitHotIdle /\ InitMomIdle /\ InitPatIdle
    /\ InitCrashIdle /\ InitFetchIdle /\ InitWsIdle
    /\ runPlays \in PatternHistories
    /\ pcRun = "collect"
    /\ runAll = <<>>
    /\ runOut = <<>>
    /\ runOut2 = <<>>

NextPatterns == AnalyzeGame \/ AnalyzeGameV2

SpecPatterns == InitPatterns /\ [][NextPatterns]_vars

(* What a pattern record says, without its key and detection time.         *)
PatternContents(tbl) == { <<i.patternType, i.body>> : i \in tbl }

(* C13: a run of analyze_game after the first one leaves the Pattern Store *)
(* with the same pattern records: none is stored a second time.            *)
C13_RerunStoresNothingNew ==
    [][/\ (analyses["live"] >= 1 /\ analyses'["live"] > analyses["live"])
           => /\ Cardinality(patternTbl') = Cardinality(patternTbl)
              /\ PatternContents(patternTbl') = PatternContents(patternTbl)
       /\ (analyses["season"] >= 1 /\ analyses'["season"] > analyses["season"])
           => /\ Cardinality(patternTbl2') = Cardinality(patternTbl2)
              /\ PatternContents(patternTbl2') = PatternContents(patternTbl2)]_vars
-----------------------------------------------------------------------------
(* SpecScenario: a first period of 30 plays, 10 home points and 1 away     *)
(* point within plays 1-25, analysed by both scoring-run detectors.        *)

(* Home baskets summing to 10, made on consecutive plays.                  *)
ScenarioShapes == { <<2, 2, 2, 2, 2>>, <<3, 3, 2, 2>>, <<3, 3, 3, 1>>, <<2, 3, 2, 3>> }

(* Plays 26-30: nobody scores, the away team scores, the home team scores. *)
ScenarioTails ==
    { Rep(RunPlay("home", 0, 1), 5),
      <<RunPlay("home", 0, 1), RunPlay("away", 2, 1)>> \o Rep(RunPlay("away", 0, 1), 3),
      <<RunPlay("away", 3, 1)>> \o Rep(RunPlay("home", 0, 1), 3) \o <<RunPlay("away", 1, 1)>>,
      <<RunPlay("home", 2, 1)>> \o Rep(RunPlay("home", 0, 1), 4),
      Rep(RunPlay("away", 0, 1), 2) \o <<RunPlay("home", 3, 1)>> \o Rep(RunPlay("home", 0, 1), 2),
      <<RunPlay("away", 2, 1)>> \o Rep(RunPlay("home", 0, 1), 3) \o <<RunPlay("home", 2, 1)>> }

ScenarioHistory(shape, start, ft, tail) ==
    [k \in 1..25 |->
        IF k >= start /\ k < start + Len(shape) THEN RunPlay("home", shape[k - start + 1], 1)
        ELSE IF k = ft THEN RunPlay("away", 1, 1)
        ELSE RunPlay("home", 0, 1)] \o tail

ScenarioHistories ==
    { ScenarioHistory(shape, start, ft, tail) :
        shape \in ScenarioShapes, start \in {1, 3, 10, 15}, ft \in {9, 20},
        tail \in ScenarioTails }

InitScenario ==
    /\ InitProc /\ InitIngestIdle /\ InitHotIdle /\ InitRestIdle
    /\ runPlays \in ScenarioHistories
    /\ pcRun = "collect"
    /\ runAll = <<>>
    /\ runOut = <<>>
    /\ runOut2 = <<>>

NextScenario == AnalyzeRuns

SpecScenario == InitScenario /\ [][NextScenario]_vars

(* The history of the scenario: 30 plays of period 1 with the home team's  *)
(* points summing to 10 and the away team's to 1 within plays 1-25.        *)
ScenarioPre ==
    /\ Len(runPlays) = 30
    /\ \A k \in 1..Len(runPlays) : runPlays[k].quarter = 1
    /\ PointsUpTo(runPlays, 25, "home") = 10
    /\ PointsUpTo(runPlays, 25, "away") = 1

HomeScoresAfter25 ==
    \E k \in 26..Len(runPlays) : runPlays[k].side = "home" /\ runPlays[k].pts > 0

(* The one result of (period, team) is a run with these numbers.           *)
ResultIs(out, q, team, pf, pa, ws) ==
    LET recs == { i \in 1..Len(out) : out[i].quarter = q /\ out[i].team = team }
    IN  /\ Cardinality(recs) = 1
        /\ \A i \in recs : /\ out[i].points_for = pf
                           /\ out[i].points_against = pa
                           /\ out[i].window_size = ws

(* C14 as stated: for a period-1 history of 30 plays with 10 home points   *)
(* and 1 away point within plays 1-25, the result for (period 1, home) is  *)
(* a run with points_for 10, points_against 1, window_size 25.             *)
C14_ScenarioRun_AsStated ==
    (pcRun = "analyzed" /\ ScenarioPre) =>
        /\ ResultIs(runOut, 1, HomeTeam, 10, 1, 25)
        /\ ResultIs(runOut2, 1, HomeTeam, 10, 1, 25)

(* C14: the same, for a history in which the home team does not score in   *)
(* plays 26-30: both detectors keep the window of plays 1-25, 10-1.        *)
C14_ScenarioRun ==
    (pcRun = "analyzed" /\ ScenarioPre /\ ~HomeScoresAfter25) =>
        /\ ResultIs(runOut, 1, HomeTeam, 10, 1, 25)
        /\ ResultIs(runOut2, 1, HomeTeam, 10, 1, 25)

(* An analysed scenario history with several qualifying windows of 10      *)
(* home points, the 30-play window of the live detector among them.        *)
C14_Witness ==
    /\ pcRun = "analyzed" /\ ScenarioPre /\ ~HomeScoresAfter25
    /\ \E i \in 1..Len(runAll) : runAll[i].window_size = 30 /\ runAll[i].team = HomeTeam
    /\ \E i \in 1..Len(runAll) : runAll[i].window_size = 25 /\ runAll[i].start_play > 0
    /\ ResultIs(runOut, 1, HomeTeam, 10, 1, 25)
-----------------------------------------------------------------------------
(* SpecAnon: the processing Lambda fed plays that name no player: plays    *)
(* without participants as replay_game.py sends them (playerId '') and as  *)
(* the ingestion Lambda sends them (no playerId key).                      *)

AnonPlays ==
    { EspnPlay("GAME#1", 4, 4, 2, "8:30", {"foul"}, {"foul"}, 2, 3, FALSE, 0, "H1", ""),
      EspnPlay("GAME#1", 5, 5, 2, "8:10", {"timeout"}, {"timeout"}, 2, 3, FALSE, 0, "", "") }

AnonEvents ==
    { parse_play_for_processing(sp, sp.game, 0) : sp \in AnonPlays }
        \cup { parse_play_data(sp, sp.game, 1) : sp \in AnonPlays }

InitAnon ==
    /\ InitProcOver(AnonEvents)
    /\ InitIngestIdle /\ InitHotIdle /\ InitRunIdle /\ InitRestIdle

NextAnon ==
    \/ \E w \in Workers, e \in AnonEvents : Deliver(w, <<e>>)
    \/ \E w \in Workers, ok \in BOOLEAN : Check(w, ok)
    \/ \E w \in Workers, ok \in BOOLEAN : Score(w, ok)
    \/ \E w \in Workers, ok \in BOOLEAN : Store(w, ok)
    \/ \E w \in Workers, mdOk \in BOOLEAN, ok \in BOOLEAN : Stats(w, mdOk, ok)
    \/ \E w \in Workers, qOk \in BOOLEAN, mdOk \in BOOLEAN : Detect(w, qOk, mdOk)
    \/ \E w \in Workers : Return(w)

SpecAnon == InitAnon /\ [][NextAnon]_vars

NoPlayer(play) == "playerId" \notin play.keys \/ play.playerId = ""

(* C15: a step of the handler on a play whose player id is absent or empty *)
(* creates or modifies no ledger item, and its score update, when the      *)
(* store call returns, sets the game's score and clock from the play.      *)
C15_NoLedgerWithoutPlayer ==
    [][\A w \in Workers :
          (Busy(w) /\ NoPlayer(Cur(w)) /\ Moves(w)) =>
              /\ ledger' = ledger
              /\ (pc[w] = "score" /\ failures' = failures) =>
                     /\ score'[Cur(w).PK].homeScore = Cur(w).homeScore
                     /\ score'[Cur(w).PK].awayScore = Cur(w).awayScore
                     /\ score'[Cur(w).PK].gameClock = Cur(w).gameClock]_vars
-----------------------------------------------------------------------------
(* SpecOwners: the writers of SCORE#CURRENT and of the PLAYER# items: the  *)
(* processing Lambda, the ingestion Lambda's poll and the backfill script  *)
(* repopulate_player_stats.py.                                             *)

(* repopulate_player_stats.py lines 24-27: update_player_stats for every   *)
(* scanned play with a player id.                                          *)
RECURSIVE repopulate(_, _)
repopulate(led, plays) ==
    IF plays = {} THEN led
    ELSE LET play == CHOOSE p \in plays : TRUE
         IN  repopulate(IF "playerId" \in play.keys /\ play.playerId # ""
                        THEN update_player_stats(led, play, TRUE, TRUE)
                        ELSE led,
                        plays \ {play})

(* One run of repopulate_player_stats.py over the PLAY# items of the table.*)
Repopulate ==
    /\ now < MaxClock
    /\ now' = now + 1
    /\ ledger' = repopulate(ledger, playsTbl)
    /\ adds' = [e \in DOMAIN adds |->
                  IF e \in playsTbl /\ e.playerId # "" /\ WritesLedger(e)
                  THEN adds[e] + 1 ELSE adds[e]]
    /\ UNCHANGED <<score, playsTbl, pc, batch, idx, processed_count, pattern, delivered,
                   redo, existed, handled, treatedNew, scoreApplied, failures, stream>>
    /\ UNCHANGED <<hotVars, runVars, momVars, patVars, crashVars, fetchVars, wsVars>>

MaxExternal == 1     \* runs of the poller and the backfill script in SpecOwners

(* An invocation with one record while no other invocation runs.          *)
DeliverOne(w, e) ==
    /\ \A v \in Workers : pc[v] = "idle"
    /\ Deliver(w, <<e>>)

PollOnce(g, n, ok) == now <= MaxExternal /\ Poll(g, n, ok)

RepopulateOnce == now <= MaxExternal /\ Repopulate

(* The handler takes one record at a time here and no store call of it     *)
(* raises.                                                                 *)
NextOwners ==
    \/ \E w \in Workers, e \in Events : DeliverOne(w, e)
    \/ \E w \in Workers : Check(w, TRUE)
    \/ \E w \in Workers : Score(w, TRUE)
    \/ \E w \in Workers : Store(w, TRUE)
    \/ \E w \in Workers : Stats(w, TRUE, TRUE)
    \/ \E w \in Workers : Detect(w, TRUE, TRUE)
    \/ \E w \in Workers : Return(w)
    \/ \E g \in Games, n \in 1..Cardinality(Feed), ok \in BOOLEAN : PollOnce(g, n, ok)
    \/ RepopulateOnce

SpecOwners == Init /\ [][NextOwners]_vars

(* C16: SCORE#CURRENT changes only in a handler invocation's score update  *)
(* and a ledger item only in its update_player_stats, both behind the      *)
(* dedup check of the record.                                              *)
C16_OnlyProcessingWrites ==
    [][/\ score' # score =>
            \E w \in Workers : pc[w] = "score" /\ pc'[w] = "store"
       /\ ledger' # ledger =>
            \E w \in Workers : pc[w] = "stats" /\ pc'[w] = "detect"]_vars
-----------------------------------------------------------------------------
(* Games do not share items: SCORE#CURRENT, the PLAY# items and the        *)
(* PLAYER# items are all keyed by the game's PK.                           *)

ItemsOfGame(tbl, g) == { i \in tbl : i.PK = g }

(* C17: a step of the handler on an event of one game leaves the score     *)
(* item, the play items and the ledger items of every other game as they   *)
(* were, whatever the other invocation is doing.                           *)
C17_OtherGamesUnchanged ==
    [][\A w \in Workers :
          (Busy(w) /\ Moves(w)) =>
              \A g \in Games \ {Cur(w).PK} :
                  /\ score'[g] = score[g]
                  /\ ItemsOfGame(playsTbl', g) = ItemsOfGame(playsTbl, g)
                  /\ \A k \in LedgerKeys : k[2] = g => ledger'[k] = ledger[k]]_vars

(* Two invocations have processed, side by side, a play of each game by    *)
(* the same player: the player has one ledger item per game.               *)
C17_Witness ==
    /\ pc["w1"] = "detect" /\ pc["w2"] = "detect"
    /\ Cur("w1").PK # Cur("w2").PK
    /\ Cur("w1").playerId = Cur("w2").playerId
    /\ ledger[LedgerKey(Cur("w1"))].present /\ ledger[LedgerKey(Cur("w2"))].present
    /\ ledger[LedgerKey(Cur("w1"))] # ledger[LedgerKey(Cur("w2"))]
    /\ score[Cur("w1").PK].present /\ score[Cur("w2").PK].present
-----------------------------------------------------------------------------
(* SpecCrash: an invocation of the processing Lambda may die between two   *)
(* store calls; Kinesis then delivers the record again.  One record per    *)
(* invocation, one invocation at a time, no store call raises.             *)

MaxCrashes == 1      \* invocations that die in one run

(* The execution environment dies inside the record loop: the invocation's *)
(* locals are gone, what it has written stays.                             *)
Crash(w) ==
    /\ Busy(w)
    /\ crashes < MaxCrashes
    /\ crashes' = crashes + 1
    /\ pc' = [pc EXCEPT ![w] = "idle"]
    /\ batch' = [batch EXCEPT ![w] = <<>>]
    /\ idx' = [idx EXCEPT ![w] = 0]
    /\ processed_count' = [processed_count EXCEPT ![w] = 0]
    /\ pattern' = [pattern EXCEPT ![w] = NoPattern]
    /\ redo' = [redo EXCEPT ![w] = FALSE]
    /\ existed' = [existed EXCEPT ![w] = FALSE]
    /\ UNCHANGED <<score, playsTbl, ledger, delivered, handled, treatedNew, adds,
                   scoreApplied, failures>>
    /\ UNCHANGED <<ingestVars, hotVars, runVars, momVars, patVars, fetchVars, wsVars>>

NextCrash ==
    \/ \E w \in Workers, e \in Events : DeliverOne(w, e)
    \/ \E w \in Workers : Check(w, TRUE)
    \/ \E w \in Workers : Score(w, TRUE)
    \/ \E w \in Workers : Store(w, TRUE)
    \/ \E w \in Workers : Stats(w, TRUE, TRUE)
    \/ \E w \in Workers : Detect(w, TRUE, TRUE)
    \/ \E w \in Workers : Return(w)
    \/ \E w \in Workers : Crash(w)

SpecCrash == Init /\ [][NextCrash]_vars

(* What one uninterrupted processing of the play leaves: its score, its    *)
(* play item, its delta added once.                                        *)
ProcessedOnce(e) ==
    /\ e \in scoreApplied
    /\ InTable(e)
    /\ adds[e] = (IF WritesLedger(e) THEN 1 ELSE 0)
    /\ ledger[LedgerKey(e)] =
           update_player_stats([k \in LedgerKeys |-> NoLedger], e, TRUE, TRUE)[LedgerKey(e)]

(* C18: after a crash, once the play's record has been handled again and   *)
(* no invocation runs, the play's effects are those of one uninterrupted   *)
(* processing: the delta is in the ledger exactly once.                    *)
C18_CrashThenRedelivery ==
    \A e \in Events :
        (/\ crashes > 0
         /\ \A w \in Workers : pc[w] = "idle"
         /\ handled = {e}
         /\ delivered = MaxDeliveries) => ProcessedOnce(e)
-----------------------------------------------------------------------------
(* Failures inside one loop iteration of the handler.                      *)

(* C19: within an iteration a store call that raises stops nothing after   *)
(* it: a failed score update is followed by the play write and the ledger  *)
(* increment, which adds the delta whenever its update_item returns (with  *)
(* or without the team lookup); a failed ledger increment or team lookup   *)
(* leaves the score and the play items as written and is followed by the   *)
(* pattern detection.                                                      *)
C19_IndependentFailures ==
    [][\A w \in Workers :
          (Busy(w) /\ Moves(w)) =>
              LET e == Cur(w)
                  k == LedgerKey(e)
                  delta == calculate_stats_delta(e)
              IN  /\ pc[w] = "score" => pc'[w] = "store" /\ ledger' = ledger
                  /\ pc[w] = "store" => pc'[w] = "stats" /\ ledger' = ledger
                  /\ pc[w] = "stats" =>
                         /\ pc'[w] = "detect"
                         /\ score' = score /\ playsTbl' = playsTbl
                         /\ (WritesLedger(e) /\ failures' = failures) =>
                                ledger'[k] = AddToItem(ledger[k], delta, ResolveTeam(e, TRUE))
                         /\ adds'[e] > adds[e] =>
                                \E mdOk \in BOOLEAN :
                                    ledger'[k] = AddToItem(ledger[k], delta,
                                                            ResolveTeam(e, mdOk))
                  /\ pc[w] = "detect" =>
                         /\ processed_count'[w] = processed_count[w] + 1
                         /\ score' = score /\ playsTbl' = playsTbl /\ ledger' = ledger]_vars

(* An iteration whose score update raised has stored the play and added    *)
(* the delta, and stands before the pattern detection.                     *)
C19_Witness ==
    \E w \in Workers :
        /\ pc[w] = "detect"
        /\ failures = 1
        /\ Cur(w) \notin scoreApplied /\ ~score[Cur(w).PK].present
        /\ InTable(Cur(w))
        /\ adds[Cur(w)] = 1
        /\ ledger[LedgerKey(Cur(w))].present

(* C20: the handler counts an iteration as processed only if the score     *)
(* update of the event was applied, and it does count an iteration whose   *)
(* ledger increment failed (every iteration that reaches the detection).   *)
C20_CountedOnlyIfScored ==
    [][\A w \in Workers :
          (Busy(w) /\ Moves(w)) =>
              /\ pc[w] = "detect" => processed_count'[w] = processed_count[w] + 1
              /\ processed_count'[w] > processed_count[w] =>
                     Cur(w) \in scoreApplied]_vars

(* C21: a Game State write that raises is attempted again: the worker      *)
(* whose update_item raised stays at the score update of that event.       *)
C21_FailedWriteIsAttemptedAgain ==
    [][\A w \in Workers :
          (pc[w] = "score" /\ failures' > failures) => pc'[w] = "score"]_vars

(* ---------------------------------------------------------------------- *)
(* Malformed records.  A record of a batch may lack the PK attribute.  The *)
(* handler is fed batches in which one record lost its PK; no store call   *)
(* raises for a reason other than the record itself, and one invocation    *)
(* runs at a time.                                                         *)

MalBatchLen == 3        \* records of a batch with a malformed record
MaxRedeliveries == 1    \* times the event source gives a failed batch again

DropPK(e) == [f \in (DOMAIN e) \ {"PK"} |-> e[f]]

HasPK(play) == "PK" \in DOMAIN play

MalformedBatches ==
    { [i \in 1..MalBatchLen |-> IF i = k THEN DropPK(b[i]) ELSE b[i]] :
          b \in [1..MalBatchLen -> Events], k \in 1..MalBatchLen }

DeliverMalformed(w, b) ==
    /\ \A v \in Workers : pc[v] = "idle"
    /\ FirstIdle(w)
    /\ delivered = 0
    /\ delivered' = 1
    /\ batch' = [batch EXCEPT ![w] = b]
    /\ idx' = [idx EXCEPT ![w] = 1]
    /\ processed_count' = [processed_count EXCEPT ![w] = 0]
    /\ pc' = [pc EXCEPT ![w] = "check"]
    /\ redo' = [redo EXCEPT ![w] = b[1] \in handled]
    /\ existed' = [existed EXCEPT ![w] = FALSE]
    /\ UNCHANGED <<score, playsTbl, ledger, pattern, handled, treatedNew, adds,
                   scoreApplied, failures>>
    /\ UNCHANGED <<ingestVars, hotVars, runVars, momVars, patVars, crashVars, fetchVars, wsVars>>

CheckRecord(w) == pc[w] = "check" /\ HasPK(Cur(w)) /\ Check(w, TRUE)

(* The loop body on a record without PK.  play['PK'] raises KeyError       *)
(* inside the try of play_already_processed (returns False, line 138), of  *)
(* update_current_score (line 104) and of update_player_stats (lines 163   *)
(* and 182, caught at 177 and 230), and put_item rejects an item without   *)
(* its key (caught at line 117): nothing is written.  play_data['PK'] at   *)
(* line 341 is evaluated by the handler itself: the KeyError reaches the   *)
(* outer except, which raises again (lines 371-373).                       *)
MalformedRecord(w) ==
    /\ pc[w] = "check"
    /\ ~HasPK(Cur(w))
    /\ pc' = [pc EXCEPT ![w] = "raised"]
    /\ UNCHANGED <<score, playsTbl, ledger, batch, idx, processed_count, pattern,
                   delivered, redo, existed, handled, treatedNew, adds,
                   scoreApplied, failures>>
    /\ UNCHANGED <<ingestVars, hotVars, runVars, momVars, patVars, crashVars, fetchVars, wsVars>>

(* An invocation that raised has failed; the Kinesis event source gives    *)
(* the same batch to the handler again.                                    *)
RetryBatch(w) ==
    /\ pc[w] = "raised"
    /\ delivered <= MaxRedeliveries
    /\ delivered' = delivered + 1
    /\ idx' = [idx EXCEPT ![w] = 1]
    /\ processed_count' = [processed_count EXCEPT ![w] = 0]
    /\ pc' = [pc EXCEPT ![w] = "check"]
    /\ redo' = [redo EXCEPT ![w] = batch[w][1] \in handled]
    /\ existed' = [existed EXCEPT ![w] = FALSE]
    /\ UNCHANGED <<score, playsTbl, ledger, batch, pattern, handled, treatedNew,
                   adds, scoreApplied, failures>>
    /\ UNCHANGED <<ingestVars, hotVars, runVars, momVars, patVars, crashVars, fetchVars, wsVars>>

NextMalformed ==
    \/ \E w \in Workers, b \in MalformedBatches : DeliverMalformed(w, b)
    \/ \E w \in Workers : CheckRecord(w)
    \/ \E w \in Workers : Score(w, TRUE)
    \/ \E w \in Workers : Store(w, TRUE)
    \/ \E w \in Workers : Stats(w, TRUE, TRUE)
    \/ \E w \in Workers : Detect(w, TRUE, TRUE)
    \/ \E w \in Workers : MalformedRecord(w)
    \/ \E w \in Workers : RetryBatch(w)

SpecMalformed == Init /\ [][NextMalformed]_vars

(* C22: a record without PK is skipped: the handler does not raise, the    *)
(* batch is not given again, and when the invocation is over every other   *)
(* record of the batch, before and after the malformed one, has been       *)
(* handled.                                                                *)
C22_MalformedRecordSkipped ==
    \A w \in Workers :
        /\ pc[w] # "raised"
        /\ delivered <= 1
        /\ pc[w] = "done" =>
               \A i \in 1..Len(batch[w]) :
                   HasPK(batch[w][i]) => batch[w][i] \in handled

(* ---------------------------------------------------------------------- *)
(* analyze_game when a put_item of a scoring run raises.  Neither script   *)
(* wraps a detector or its storing in a try of its own: the live script    *)
(* has no try at all (analyze_patterns.py lines 300-371), the season       *)
(* script one try around the whole function (analyze_patterns_v2.py lines  *)
(* 372-423).                                                               *)

LiveRuns(hist) ==
    deduplicate_runs(find_all_runs_by_quarter(LiveRunPlays(hist), HomeTeam, AwayTeam))

LiveStreaks(hist) ==
    LET cands == hot_streak_scan(StreakView(hist), Len(hist)).hot_streaks
    IN  best_streaks(cands, Len(cands))

LiveShifts(hist) == detect_momentum_shifts(ScoreView(hist), HomeTeam, AwayTeam)

(* The k-th store_pattern of the run loop (line 346) raises: the exception *)
(* leaves analyze_game, the runs before it are stored, lines 347-369 are   *)
(* not executed.                                                           *)
AnalyzeGameRunStoreRaises(k) ==
    /\ analyses["live"] < MaxAnalyses
    /\ analyses' = [analyses EXCEPT !["live"] = @ + 1]
    /\ LET unique_runs == LiveRuns(runPlays)
           items == [i \in 1..Len(unique_runs) |->
                       store_pattern_item(AnalysedGame, unique_runs[i], now + i - 1)]
       IN  /\ k \in 1..Len(unique_runs)
           /\ patternTbl' = PutAll(patternTbl, items, k - 1)
           /\ now' = now + k
    /\ UNCHANGED <<patternTbl2, stream>>
    /\ UNCHANGED <<procVars, hotVars, runVars, momVars, crashVars, fetchVars, wsVars>>

SeasonRuns(hist) ==
    find_scoring_runs(SeasonRunPlays(hist), IowaTeamId, OpponentTeamId, HomeTeam, AwayTeam)

SeasonStreaks(hist) ==
    LET cands == hot_streak_scan_v2(StreakView(hist), Len(hist)).hot_streaks
    IN  best_streaks(cands, Len(cands))

(* The k-th store_pattern of the run loop (line 410) raises: the except of *)
(* line 421 records the error and analyze_game returns; the patterns were  *)
(* cleared, the runs before the k-th are stored, the loop of the hot       *)
(* streaks (lines 413-415) is not executed.                                *)
AnalyzeGameV2RunStoreRaises(k) ==
    /\ analyses["season"] < MaxAnalyses
    /\ analyses' = [analyses EXCEPT !["season"] = @ + 1]
    /\ LET scoring_runs == SeasonRuns(runPlays)
           cleared == { i \in patternTbl2 : i.PK # AnalysedGame }
           items == [i \in 1..Len(scoring_runs) |->
                       store_pattern_v2(AnalysedGame, "scoring_run", scoring_runs[i],
                                        i, now + i - 1)]
       IN  /\ k \in 1..Len(scoring_runs)
           /\ patternTbl2' = PutAll(cleared, items, k - 1)
           /\ now' = now + k
    /\ UNCHANGED <<patternTbl, stream>>
    /\ UNCHANGED <<procVars, hotVars, runVars, momVars, crashVars, fetchVars, wsVars>>

MaxFailAt == 2       \* the store_pattern call of the run loop that raises

NextContain ==
    \/ AnalyzeGame
    \/ AnalyzeGameV2
    \/ \E k \in 1..MaxFailAt : AnalyzeGameRunStoreRaises(k)
    \/ \E k \in 1..MaxFailAt : AnalyzeGameV2RunStoreRaises(k)

SpecContain == InitPatterns /\ [][NextContain]_vars

StoredStreaks(tbl) == { i.body : i \in { j \in tbl : j.patternType = "hot_streak" } }

StoredShifts(tbl) == { i.body : i \in { j \in tbl : j.patternType = "momentum_shift" } }

(* C23: after every run of analyze_game, one in which the storing of a     *)
(* scoring run raised included, the hot streaks and the momentum shifts    *)
(* of the history are in the Pattern Store.                                *)
C23_RunFailureContained ==
    [][/\ analyses'["live"] > analyses["live"] =>
              /\ \A n \in 1..Len(LiveStreaks(runPlays)) :
                     store_hot_streak_item(AnalysedGame, LiveStreaks(runPlays)[n], 0).body
                         \in StoredStreaks(patternTbl')
              /\ \A n \in 1..Len(LiveShifts(runPlays)) :
                     store_momentum_shift_item(AnalysedGame, LiveShifts(runPlays)[n], 0).body
                         \in StoredShifts(patternTbl')
       /\ analyses'["season"] > analyses["season"] =>
              \A n \in 1..Len(SeasonStreaks(runPlays)) :
                  store_pattern_v2(AnalysedGame, "hot_streak", SeasonStreaks(runPlays)[n],
                                   0, 0).body
                      \in StoredStreaks(patternTbl2')]_vars

(* ---------------------------------------------------------------------- *)
(* lambda/ingestion/handler.py fetch_with_retry: one call, with any        *)
(* max_retries up to a bound and any outcome of each request.              *)

MaxRetriesArg == 4      \* largest max_retries a call is made with

Outcomes == {"ok", "timeout", "http", "error"}

(* 2 ** attempt. *)
RECURSIVE Pow2(_)
Pow2(n) == IF n = 0 THEN 1 ELSE 2 * Pow2(n - 1)

(* Line 37, `for attempt in range(max_retries)`: whether the loop has a    *)
(* further iteration (the variant below runs one iteration more).          *)
range_has_inclusive(a, m) == a <= m

range_has(a, m) == a < m

(* The next iteration of the loop, or line 57 when the range is used up.   *)
NextAttempt ==
    /\ attempt' = attempt + 1
    /\ fetchPc' = IF range_has(attempt + 1, max_retries) THEN "request" ELSE "raised"

InitFetch ==
    /\ InitProc /\ InitIngestIdle /\ InitHotIdle /\ InitRunIdle
    /\ InitMomIdle /\ InitPatIdle /\ InitCrashIdle /\ InitFetchIdle /\ InitWsIdle

FetchCall(m) ==
    /\ fetchPc = "idle"
    /\ max_retries' = m
    /\ attempt' = 0
    /\ fetchPc' = IF range_has(0, m) THEN "request" ELSE "raised"
    /\ UNCHANGED <<requestsIssued, responses, waits>>
    /\ UNCHANGED <<procVars, ingestVars, hotVars, runVars, momVars, patVars, crashVars, wsVars>>

(* Lines 38-49: requests.get and raise_for_status; a response returns     *)
(* from the function, each of the three exceptions is caught and printed.  *)
(* Lines 51-52: after a caught exception, sleep unless this was the last   *)
(* attempt.                                                                *)
Request(r) ==
    /\ fetchPc = "request"
    /\ requestsIssued' = requestsIssued + 1
    /\ responses' = Append(responses, r)
    /\ IF r = "ok"
       THEN fetchPc' = "returned" /\ UNCHANGED attempt
       ELSE IF attempt < max_retries - 1
            THEN fetchPc' = "sleep" /\ UNCHANGED attempt
            ELSE NextAttempt
    /\ UNCHANGED <<max_retries, waits>>
    /\ UNCHANGED <<procVars, ingestVars, hotVars, runVars, momVars, patVars, crashVars, wsVars>>

(* Lines 53-55: time.sleep(2 ** attempt).                                  *)
Sleep ==
    /\ fetchPc = "sleep"
    /\ waits' = Append(waits, Pow2(attempt))
    /\ NextAttempt
    /\ UNCHANGED <<max_retries, requestsIssued, responses>>
    /\ UNCHANGED <<procVars, ingestVars, hotVars, runVars, momVars, patVars, crashVars, wsVars>>

NextFetch ==
    \/ \E m \in 0..MaxRetriesArg : FetchCall(m)
    \/ \E r \in Outcomes : Request(r)
    \/ Sleep

SpecFetch == InitFetch /\ [][NextFetch]_vars

Failed(i) == responses[i] # "ok"

(* C24: the requests are issued one at a time, at most max_retries of      *)
(* them; the call returns at the first successful response and issues no   *)
(* request after it (timeout, timeout, success: 3 requests); it raises     *)
(* only after exactly max_retries failed requests; it sleeps between two   *)
(* requests only, never after the last one.                                *)
C24_FetchWithRetry ==
    fetchPc # "idle" =>
        /\ requestsIssued = Len(responses)
        /\ requestsIssued <= max_retries
        /\ \A i \in 1..(Len(responses) - 1) : Failed(i)
        /\ fetchPc = "returned" <=> (responses # <<>> /\ ~Failed(Len(responses)))
        /\ fetchPc = "raised" <=>
               (requestsIssued = max_retries /\ \A i \in 1..Len(responses) : Failed(i))
        /\ (fetchPc = "returned" /\ responses = <<"timeout", "timeout", "ok">>) =>
               requestsIssued = 3
        /\ Len(waits) <= requestsIssued
        /\ (requestsIssued > 0 /\ Len(waits) = requestsIssued) => fetchPc = "request"
        /\ (fetchPc \in {"returned", "raised"} /\ requestsIssued > 0) =>
               Len(waits) = requestsIssued - 1
        /\ \A i \in 1..Len(waits) : waits[i] = Pow2(i - 1)

(* Two timeouts, then a response, with max_retries = 3.                    *)
C24_Witness ==
    /\ fetchPc = "returned"
    /\ max_retries = 3
    /\ responses = <<"timeout", "timeout", "ok">>
    /\ requestsIssued = 3
    /\ waits = <<1, 2>>

(* ---------------------------------------------------------------------- *)
(* One window under detect_run_in_window (live script) and under           *)
(* detect_scoring_run (season script).  The live script evaluates windows  *)
(* of 25, 50, 75 and max_window = min(len(quarter_plays), 120) plays (100  *)
(* for a quarter of 100 plays), the season script windows of 25, 50 and 75 *)
(* plays.                                                                  *)

WindowSizes == {25, 50, 75, 100}

SeasonWindowSizes == {25, 50, 75}

BasketCounts == {4, 7, 8, 10, 11}      \* two-point baskets of the one team

AnswerCounts == {1, 2, 3, 4}           \* two-point baskets of the other team

(* A window of w plays of quarter 1: the baskets of one side, those of the *)
(* other side, then plays without points.                                  *)
WindowOf(w, side, nf, na) ==
    LET other == IF side = "home" THEN "away" ELSE "home"
    IN  [k \in 1..w |-> IF k <= nf THEN RunPlay(side, 2, 1)
                        ELSE IF k <= nf + na THEN RunPlay(other, 2, 1)
                        ELSE RunPlay(side, 0, 1)]

InitWindow ==
    /\ InitProc /\ InitIngestIdle /\ InitHotIdle /\ InitRestIdle
    /\ runPlays \in { WindowOf(w, side, nf, na) :
                         w \in WindowSizes, side \in {"home", "away"},
                         nf \in BasketCounts, na \in AnswerCounts }
    /\ pcRun = "collect"
    /\ runAll = <<>>
    /\ runOut = <<>>
    /\ runOut2 = <<>>

EvaluateWindow ==
    /\ pcRun = "collect"
    /\ pcRun' = "analyzed"
    /\ LET w == Len(runPlays)
       IN  /\ runOut' = << detect_run_in_window(LiveRunPlays(runPlays), HomeTeam,
                                                AwayTeam, w) >>
           /\ runOut2' = IF w \in SeasonWindowSizes
                         THEN << detect_scoring_run_v2(SeasonRunPlays(runPlays), IowaTeamId,
                                                       OpponentTeamId, w) >>
                         ELSE <<>>
    /\ UNCHANGED <<runPlays, runAll>>
    /\ UNCHANGED <<procVars, ingestVars, hotVars, momVars, patVars, crashVars, fetchVars, wsVars>>

NextWindow == EvaluateWindow

SpecWindow == InitWindow /\ [][NextWindow]_vars

(* The thresholds the statement gives for a window of w plays.             *)
StatedThresholds(w) ==
    CASE w = 25 -> <<8, 2>>
      [] w = 50 -> <<16, 4>>
      [] w = 75 -> <<20, 6>>
      [] w >= 100 -> <<20, 8>>

(* Whether the statement makes the window a run candidate of the side.     *)
StatedCandidate(hist, side) ==
    LET other == IF side = "home" THEN "away" ELSE "home"
        th == StatedThresholds(Len(hist))
    IN  /\ PointsUpTo(hist, Len(hist), side) >= th[1]
        /\ PointsUpTo(hist, Len(hist), other) <= th[2]

(* C25: an evaluated window of 25, 50, 75 or at least 100 plays yields a   *)
(* run candidate for a team exactly if the team has at least 8, 16, 20,    *)
(* 20 points in it and the opponent at most 2, 4, 6, 8.                    *)
C25_WindowThresholds ==
    pcRun = "analyzed" =>
        /\ runOut[1].found <=>
               (StatedCandidate(runPlays, "home") \/ StatedCandidate(runPlays, "away"))
        /\ runOut[1].found /\ runOut[1].team = HomeTeam => StatedCandidate(runPlays, "home")
        /\ runOut[1].found /\ runOut[1].team = AwayTeam => StatedCandidate(runPlays, "away")
        /\ runOut2 # <<>> =>
               /\ runOut2[1].found <=>
                      (StatedCandidate(runPlays, "home") \/ StatedCandidate(runPlays, "away"))
               /\ runOut2[1].found /\ runOut2[1].is_iowa => StatedCandidate(runPlays, "home")
               /\ runOut2[1].found /\ ~runOut2[1].is_iowa => StatedCandidate(runPlays, "away")

(* C26: right after the score update of a play that passed the dedup check *)
(* has returned, the game's SCORE#CURRENT item has the play's homeScore,   *)
(* awayScore, quarter and gameClock, whatever it held before.              *)
C26_ScoreIsThePlays ==
    [][\A w \in Workers :
          (pc[w] = "score" /\ pc'[w] = "store" /\ failures' = failures) =>
              LET play == Cur(w)
              IN  /\ score'[play.PK].present
                  /\ score'[play.PK].homeScore = play.homeScore
                  /\ score'[play.PK].awayScore = play.awayScore
                  /\ score'[play.PK].quarter = play.quarter
                  /\ score'[play.PK].gameClock = play.gameClock]_vars

(* The play with sequence number 1 (2-0) has just been applied over the    *)
(* score of the play with sequence number 2 (2-3): the away score went     *)
(* down from 3 to 0.                                                       *)
C26_Witness ==
    \E w \in Workers :
        /\ pc[w] = "store"
        /\ Cur(w).PK = "GAME#1" /\ Sequence(Cur(w)) = 1
        /\ Cur(w) \in scoreApplied
        /\ \E e \in scoreApplied : e.PK = "GAME#1" /\ Sequence(e) = 2
        /\ score["GAME#1"].homeScore = 2 /\ score["GAME#1"].awayScore = 0
        /\ score["GAME#1"].gameClock = "9:40"

(* ---------------------------------------------------------------------- *)
(* The handler on one play of every class calculate_stats_delta tells      *)
(* apart, with or without an earlier play of the same player and game in   *)
(* the ledger.  One record per invocation, one invocation at a time; the   *)
(* METADATA read of update_player_stats may raise.                         *)

(* The plays of ClassPlays that carry a player id, worth 0 or 3 points,    *)
(* and the same plays with a team id that is neither team's.               *)
ShotPlays ==
    LET own == { p \in ClassPlays : /\ "playerId" \in p.keys
                                    /\ p.pointsScored \in {0, 3}
                                    /\ ~Has(p.text, "3pt") }
    IN  own \cup { [p EXCEPT !.teamId = "Z9", !.team = "Unknown"] : p \in own }

(* An earlier play of the same player and game: a made layup.               *)
PriorPlay ==
    [PK |-> "GAME#1", SK |-> <<Stamp("espn", 0), 0>>, playId |-> 0,
     timestamp |-> Stamp("espn", 0), quarter |-> 1, gameClock |-> "9:55",
     text |-> {"made", "layup"}, homeScore |-> 2, awayScore |-> 0,
     scoringPlay |-> TRUE, pointsScored |-> 2, teamId |-> "H1", team |-> "Iowa",
     playerId |-> "p1", playType |-> {"layupshot"}, action |-> {"made", "layup"},
     keys |-> {"playerId", "teamId", "playType", "pointsScored", "team", "action"}]

InitShots ==
    /\ InitProcOver(ShotPlays \cup {PriorPlay})
    /\ InitIngestIdle /\ InitHotIdle /\ InitRunIdle /\ InitRestIdle

DeliverPrior(w) ==
    /\ delivered = 0
    /\ Deliver(w, <<PriorPlay>>)

DeliverShot(w, play) ==
    /\ \A v \in Workers : pc[v] = "idle"
    /\ handled \cap ShotPlays = {}
    /\ Deliver(w, <<play>>)

NextShots ==
    \/ \E w \in Workers : DeliverPrior(w)
    \/ \E w \in Workers, play \in ShotPlays : DeliverShot(w, play)
    \/ \E w \in Workers : Check(w, TRUE)
    \/ \E w \in Workers : Score(w, TRUE)
    \/ \E w \in Workers : Store(w, TRUE)
    \/ \E w \in Workers, mdOk \in BOOLEAN : Stats(w, mdOk, TRUE)
    \/ \E w \in Workers : Detect(w, TRUE, TRUE)
    \/ \E w \in Workers : Return(w)

SpecShots == InitShots /\ [][NextShots]_vars

(* Lines 34-36: the indicators read from the text and the play type.       *)
IsThree(play) == Has(play.text, "three") \/ Has(play.text, "3pt")

IsFreeThrow(play) == Has(play.text, "free throw") \/ Has(play.playType, "free")

IsMissOrBlock(play) == Has(play.text, "miss") \/ Has(play.text, "block")

(* What a step of update_player_stats added to the field of the play's     *)
(* ledger item.                                                            *)
Added(play, f) == ledger'[LedgerKey(play)][f] - ledger[LedgerKey(play)][f]

(* The ledger step of worker w. *)
StatsStep(w) == pc[w] = "stats" /\ pc'[w] = "detect"

(* C27: a scoring play with points adds its points, and 1 to all four      *)
(* field-goal fields if it is a three-pointer, else 1 to fgMade and        *)
(* fgAttempted only if it is not a free throw, else to no field-goal       *)
(* field; a scoring play with 0 points adds no points and no field goal.   *)
C27_ScoringDelta ==
    [][\A w \in Workers :
          (StatsStep(w) /\ Cur(w).scoringPlay) =>
              LET play == Cur(w)
                  fg == <<Added(play, "fgMade"), Added(play, "fgAttempted"),
                          Added(play, "threeMade"), Added(play, "threeAttempted")>>
              IN  /\ Added(play, "points") = play.pointsScored
                  /\ IF play.pointsScored = 0 THEN fg = <<0, 0, 0, 0>>
                     ELSE IF IsThree(play) THEN fg = <<1, 1, 1, 1>>
                     ELSE IF ~IsFreeThrow(play) THEN fg = <<1, 1, 0, 0>>
                     ELSE fg = <<0, 0, 0, 0>>]_vars

(* A made three-pointer has been added to a ledger item that held a made   *)
(* layup.                                                                  *)
C27_Witness ==
    \E w \in Workers :
        /\ pc[w] = "detect"
        /\ Cur(w) \in ShotPlays
        /\ Cur(w).scoringPlay /\ Cur(w).pointsScored = 3 /\ IsThree(Cur(w))
        /\ ~IsFreeThrow(Cur(w))
        /\ adds[PriorPlay] = 1 /\ adds[Cur(w)] = 1
        /\ ledger[LedgerKey(Cur(w))].points = 5
        /\ ledger[LedgerKey(Cur(w))].fgMade = 2
        /\ ledger[LedgerKey(Cur(w))].threeMade = 1

(* C28: a non-scoring play adds nothing to points, fgMade and threeMade;   *)
(* a miss or a blocked attempt adds 1 to fgAttempted, and 1 to             *)
(* threeAttempted when it is a three-point attempt, only if it is not a    *)
(* free throw: a missed free throw adds 0 to both, whatever the three-     *)
(* point, miss and block indicators are.                                   *)
C28_MissDelta ==
    [][\A w \in Workers :
          (StatsStep(w) /\ ~Cur(w).scoringPlay) =>
              LET play == Cur(w)
              IN  /\ Added(play, "points") = 0
                  /\ Added(play, "fgMade") = 0
                  /\ Added(play, "threeMade") = 0
                  /\ IF IsMissOrBlock(play) /\ ~IsFreeThrow(play)
                     THEN /\ Added(play, "fgAttempted") = 1
                          /\ Added(play, "threeAttempted") = (IF IsThree(play) THEN 1 ELSE 0)
                     ELSE /\ Added(play, "fgAttempted") = 0
                          /\ Added(play, "threeAttempted") = 0]_vars

(* C29: the ledger step of a play whose stat delta is all zeros writes     *)
(* nothing: no ledger item is created and every existing item, its team    *)
(* included, stays as it is.                                               *)
C29_ZeroDeltaWritesNothing ==
    [][\A w \in Workers :
          (StatsStep(w) /\ calculate_stats_delta(Cur(w)) = ZeroDelta) =>
              /\ ledger' = ledger
              /\ adds' = adds]_vars

(* A play without any stat, of a team id that is neither team's, has       *)
(* passed the ledger step; the player's item still holds the made layup    *)
(* and the team recorded with it.                                          *)
C29_Witness ==
    \E w \in Workers :
        /\ pc[w] = "detect"
        /\ Cur(w) \in ShotPlays
        /\ calculate_stats_delta(Cur(w)) = ZeroDelta
        /\ Cur(w).teamId = "Z9"
        /\ adds[PriorPlay] = 1 /\ adds[Cur(w)] = 0
        /\ ledger[LedgerKey(Cur(w))] =
               [NoLedger EXCEPT !.present = TRUE, !.points = 2, !.fgMade = 1,
                                !.fgAttempted = 1, !.team = "Iowa"]

(* The play's team id is neither the home nor the away team's.             *)
TeamUnmatched(play) ==
    play.teamId \notin {Metadata(play.PK).homeTeamId, Metadata(play.PK).awayTeamId}

(* C30: when the METADATA read of the ledger step raises, or the play's    *)
(* team id matches neither team, the play's delta is still added to the    *)
(* ledger item and the item's team is "Unknown".                           *)
C30_UnknownTeamStillAdds ==
    [][\A w \in Workers :
          (/\ StatsStep(w)
           /\ WritesLedger(Cur(w))
           /\ (failures' > failures \/ TeamUnmatched(Cur(w)))) =>
              LET play == Cur(w)
                  k == LedgerKey(play)
              IN  /\ ledger'[k].present
                  /\ \A f \in StatFields : Added(play, f) = calculate_stats_delta(play)[f]
                  /\ ledger'[k].team = "Unknown"
                  /\ adds'[play] = adds[play] + 1]_vars

(* A made three-pointer of the home team whose METADATA read raised has    *)
(* been added to the item that held the made layup; the item's team went   *)
(* from "Iowa" to "Unknown".                                               *)
C30_Witness ==
    \E w \in Workers :
        /\ pc[w] = "detect"
        /\ Cur(w) \in ShotPlays
        /\ Cur(w).teamId = "H1"
        /\ failures = 1
        /\ adds[PriorPlay] = 1 /\ adds[Cur(w)] = 1
        /\ ledger[LedgerKey(Cur(w))].points = 5
        /\ ledger[LedgerKey(Cur(w))].threeMade = 1
        /\ ledger[LedgerKey(Cur(w))].team = "Unknown"

-----------------------------------------------------------------------------
(* SpecSpan: which windows the two run detectors evaluate.  A first        *)
(* period with baskets of one side at its start and of either side at its  *)
(* end, possibly followed by a short second period that opens with baskets.*)

SpanLengths == {20, 24, 25, 30}        \* plays of period 1

SpanBaskets == 0..5                    \* two-point baskets in a block

SpanSecond == {0, 20}                  \* plays of period 2

SpanHistory(n, side, h, side2, t, m) ==
    [k \in 1..n |-> IF k <= h THEN RunPlay(side, 2, 1)
                    ELSE IF k > n - t THEN RunPlay(side2, 2, 1)
                    ELSE RunPlay(side, 0, 1)]
        \o [k \in 1..m |-> IF k <= 4 THEN RunPlay(side, 2, 2) ELSE RunPlay(side, 0, 2)]

InitSpan ==
    /\ InitProc /\ InitIngestIdle /\ InitHotIdle /\ InitRestIdle
    /\ runPlays \in { SpanHistory(n, side, h, side2, t, m) :
                         n \in SpanLengths, side \in {"home", "away"},
                         h \in SpanBaskets, side2 \in {"home", "away"},
                         t \in SpanBaskets, m \in SpanSecond }
    /\ pcRun = "collect"
    /\ runAll = <<>>
    /\ runOut = <<>>
    /\ runOut2 = <<>>

NextSpan == AnalyzeRuns

SpecSpan == InitSpan /\ [][NextSpan]_vars

(* The plays of one period, in the order of the history.                   *)
PeriodPlays(plays, q) == SelectSeq(plays, LAMBDA p : p.quarter = q)

PeriodPlays_v2(plays, q) == SelectSeq(plays, LAMBDA p : p.period = q)

(* The window sizes the statement names for a period of n plays.           *)
StatedSizes(n) == { w \in {25, 50, 75, Min(120, n)} : w <= n }

(* C31: every candidate of the live detector is a window of a stated size  *)
(* inside one period of at least 25 plays, and every window of a stated    *)
(* size at every start position of such a period has been evaluated: if    *)
(* it holds a run, the live detector has the candidate and the season      *)
(* detector keeps a run of that period and team with at least its points.  *)
C31_WindowsEvaluated ==
    pcRun = "analyzed" =>
        /\ \A c \in 1..Len(runAll) :
              LET n == Len(PeriodPlays(runPlays, runAll[c].quarter))
              IN  /\ n >= 25
                  /\ runAll[c].window_size \in StatedSizes(n)
                  /\ runAll[c].start_play + runAll[c].window_size <= n
        /\ \A c \in 1..Len(runOut2) :
              LET n == Len(PeriodPlays(runPlays, runOut2[c].quarter))
              IN  n >= 25 /\ runOut2[c].window_size \in StatedSizes(n)
        /\ \A q \in RunQuarters :
              LET qp == PeriodPlays(LiveRunPlays(runPlays), q)
                  pp == PeriodPlays_v2(SeasonRunPlays(runPlays), q)
                  n == Len(qp)
              IN  n >= 25 =>
                    \A w \in StatedSizes(n) : \A i \in 1..(n - w + 1) :
                        LET run == detect_run_in_window(SubSeq(qp, i, i + w - 1),
                                                        HomeTeam, AwayTeam, w)
                            run2 == detect_scoring_run_v2(SubSeq(pp, i, i + w - 1),
                                                          IowaTeamId, OpponentTeamId, w)
                        IN  /\ run.found =>
                                \E c \in 1..Len(runAll) :
                                    /\ runAll[c].quarter = q
                                    /\ runAll[c].window_size = w
                                    /\ runAll[c].start_play = i - 1
                                    /\ runAll[c].team = run.team
                                    /\ runAll[c].points_for = run.points_for
                            /\ run2.found =>
                                \E c \in 1..Len(runOut2) :
                                    /\ runOut2[c].quarter = q
                                    /\ runOut2[c].team =
                                           (IF run2.is_iowa THEN HomeTeam ELSE AwayTeam)
                                    /\ runOut2[c].points_for >= run2.points_for

RunsOrdered(runs) ==
    \A i \in 1..Len(runs) : \A j \in (i + 1)..Len(runs) :
        \/ runs[i].quarter < runs[j].quarter
        \/ runs[i].quarter = runs[j].quarter /\ runs[i].points_for >= runs[j].points_for

(* C32: the scoring runs each detector returns are ordered by period        *)
(* ascending and, within one period, by points_for descending.             *)
C32_RunsOrdered ==
    pcRun = "analyzed" => RunsOrdered(runOut) /\ RunsOrdered(runOut2)

-----------------------------------------------------------------------------
(* Which plays emit a HotStreak candidate, and what the other plays leave  *)
(* alone.                                                                  *)

(* The number of made field goals of the player of play k up to and        *)
(* including play k, counted from that player's last missed field goal.    *)
MakesSinceMiss(plays, k) ==
    LET p == plays[k].player
        misses == { j \in 1..(k - 1) : MissedFG(plays[j], p) }
        last == IF misses = {} THEN 0 ELSE CHOOSE j \in misses : \A i \in misses : i <= j
    IN  Cardinality({ j \in (last + 1)..k : MadeFG(plays[j], p) })

(* The candidates the statement expects, in chronological order.           *)
ExpectedStreaks(plays, TeamOf(_)) ==
    LET triggers == SelectSeq([k \in 1..Len(plays) |-> k],
                              LAMBDA k : /\ plays[k].player # ""
                                         /\ plays[k].kind = "made"
                                         /\ MakesSinceMiss(plays, k) >= 3)
    IN  [i \in 1..Len(triggers) |->
            [player_id |-> plays[triggers[i]].player,
             team |-> TeamOf(plays[triggers[i]].player),
             consecutive_makes |-> MakesSinceMiss(plays, triggers[i]),
             quarter |-> plays[triggers[i]].quarter]]

(* C33: in chronological order a candidate with consecutive_makes = n is   *)
(* emitted on a play exactly when the play is its player's n-th made       *)
(* non-free-throw field goal since that player's last missed field goal    *)
(* (or the start of the game) and n >= 3; it carries the player, the       *)
(* player's team and the period of that play (both detectors).             *)
C33_CandidateIffNthMake ==
    pcHot = "analyzed" =>
        /\ hotCands = ExpectedStreaks(hotPlays, TeamOfPlayer)
        /\ hotCands2 = ExpectedStreaks(hotPlays, TeamIdOfPlayer)

C33_Witness ==
    /\ pcHot = "analyzed"
    /\ Len(hotPlays) = 4
    /\ hotPlays[1].kind = "missed" /\ hotPlays[1].player = "p1"
    /\ hotCands = <<[player_id |-> "p1", team |-> "Iowa",
                     consecutive_makes |-> 3, quarter |-> 2]>>
    /\ hotCands2 = <<[player_id |-> "p1", team |-> "2294",
                      consecutive_makes |-> 3, quarter |-> 2]>>

(* A play that is neither a made nor a missed field goal of player p.      *)
LeavesAlone(h, p) == ~MadeFG(h, p) /\ ~MissedFG(h, p)

(* C34: a free throw, a play that is neither a made nor a missed field     *)
(* goal, and any play of another player leave a player's streak counter    *)
(* as it was (both detectors).                                             *)
C34_OtherPlaysKeepCounter ==
    \A k \in 1..Len(hotPlays) : \A p \in HotPlayers \ {""} :
        LeavesAlone(hotPlays[k], p) =>
            /\ hot_streak_scan(hotPlays, k).player_streaks[p]
                   = hot_streak_scan(hotPlays, k - 1).player_streaks[p]
            /\ hot_streak_scan_v2(hotPlays, k).player_streaks[p]
                   = hot_streak_scan_v2(hotPlays, k - 1).player_streaks[p]

C34_Witness ==
    /\ pcHot = "analyzed"
    /\ Len(hotPlays) = 4
    /\ hotPlays[1].kind = "made" /\ hotPlays[2].kind = "ft_missed"
    /\ hotPlays[3].kind = "made" /\ hotPlays[4].kind = "made"
    /\ \A k \in 1..4 : hotPlays[k].player = "p1"
    /\ Makes(hotCands) = <<3>>
    /\ Makes(hotCands2) = <<3>>

-----------------------------------------------------------------------------
(* SpecRecent: the handler's run detection over a table of 17 plays of one *)
(* game, of which get_recent_plays returns the newest 15.                  *)

RecentHomeBaskets == 0..6      \* two-point baskets of the home team in the newest 15

RecentAwayPoints == 0..3       \* free throws made by the away team in the newest 15

(* A stored play as detect_scoring_run reads it.                           *)
RecentPlay(k, team, pts) ==
    [PK |-> "GAME#1", SK |-> <<Stamp("espn", k), k>>, scoringPlay |-> pts > 0,
     team |-> team, pointsScored |-> pts, keys |-> {"team", "pointsScored"}]

(* Plays 1 and 2 are three-pointers of `old`; of the newest 15 plays the   *)
(* first hb are baskets of `run`, the last ap free throws of the other.    *)
RecentTable(old, run, hb, ap) ==
    LET hdr == GameHeader("GAME#1")
        name(side) == IF side = "home" THEN hdr.homeTeam ELSE hdr.awayTeam
        other == IF run = "home" THEN "away" ELSE "home"
    IN  { RecentPlay(k, name(old), 3) : k \in 1..2 }
          \cup { RecentPlay(2 + k, name(run), IF k <= hb THEN 2 ELSE 0) : k \in 1..(15 - ap) }
          \cup { RecentPlay(17 - ap + k, name(other), 1) : k \in 1..ap }

InitRecent ==
    /\ InitIngestIdle /\ InitHotIdle /\ InitRunIdle /\ InitRestIdle
    /\ score = [g \in Games |-> NoScore]
    /\ playsTbl \in { RecentTable(old, run, hb, ap) :
                         old \in {"home", "away"}, run \in {"home", "away"},
                         hb \in RecentHomeBaskets, ap \in RecentAwayPoints }
    /\ ledger = [k \in LedgerKeys |-> NoLedger]
    /\ pc = [w \in Workers |-> IF w = "w1" THEN "detect" ELSE "idle"]
    /\ batch = [w \in Workers |-> <<>>]
    /\ idx = [w \in Workers |-> 0]
    /\ processed_count = [w \in Workers |-> 0]
    /\ pattern = [w \in Workers |-> NoPattern]
    /\ delivered = 0
    /\ redo = [w \in Workers |-> FALSE]
    /\ existed = [w \in Workers |-> FALSE]
    /\ handled = {}
    /\ treatedNew = [e \in Events |-> 0]
    /\ adds = [e \in Events |-> 0]
    /\ scoreApplied = {}
    /\ failures = 0

(* handler lines 339-360 for a play of GAME#1: the query for the newest 15 *)
(* plays (which may raise and then reads as no plays), the METADATA read,  *)
(* detect_scoring_run.                                                     *)
DetectRecent(qOk) ==
    /\ pc["w1"] = "detect"
    /\ Fails(IF qOk THEN 0 ELSE 1)
    /\ LET recent_plays == get_recent_plays(playsTbl, "GAME#1", RecentLimit, qOk)
           metadata == Metadata("GAME#1")
       IN  pattern' = [pattern EXCEPT !["w1"] =
               detect_scoring_run(recent_plays, metadata.homeTeam, metadata.awayTeam)]
    /\ pc' = [pc EXCEPT !["w1"] = "done"]
    /\ processed_count' = [processed_count EXCEPT !["w1"] = @ + 1]
    /\ UNCHANGED <<score, playsTbl, ledger, batch, idx, delivered, redo, existed,
                   handled, treatedNew, adds, scoreApplied>>
    /\ UNCHANGED <<ingestVars, hotVars, runVars, momVars, patVars, crashVars, fetchVars, wsVars>>

NextRecent == \E qOk \in BOOLEAN : DetectRecent(qOk)

SpecRecent == InitRecent /\ [][NextRecent]_vars

(* The points of a team in the newest 15 plays of the table.               *)
RecentPoints(team) ==
    SumPoints({ i \in playsTbl : Cardinality({ j \in playsTbl : SKLess(i.SK, j.SK) }) < 15 },
              team)

(* C35: applied to the newest 15 plays, the handler's detect_scoring_run   *)
(* returns a run of a team whenever that team has 8 or more points there   *)
(* and the opponent none, or 10 or more and the opponent at most 2, and    *)
(* returns None otherwise.                                                 *)
C35_InlineRunThresholds ==
    (pc["w1"] = "done" /\ failures = 0) =>
        LET hdr == GameHeader("GAME#1")
            qualifies(t, o) ==
                \/ RecentPoints(t) >= 8 /\ RecentPoints(o) = 0
                \/ RecentPoints(t) >= 10 /\ RecentPoints(o) <= 2
        IN  /\ qualifies(hdr.homeTeam, hdr.awayTeam) =>
                  pattern["w1"].found /\ pattern["w1"].team = hdr.homeTeam
            /\ qualifies(hdr.awayTeam, hdr.homeTeam) =>
                  pattern["w1"].found /\ pattern["w1"].team = hdr.awayTeam
            /\ (~qualifies(hdr.homeTeam, hdr.awayTeam)
                  /\ ~qualifies(hdr.awayTeam, hdr.homeTeam)) => ~pattern["w1"].found

-----------------------------------------------------------------------------
(* Claims about the dedup check raising, checked under Spec.               *)

(* C36: an existence check that raises lets the play through as new, also  *)
(* when the play is in the table: the iteration goes on to the score       *)
(* update, the play-record write and the ledger increment, each of which   *)
(* takes effect when its own store call returns.                           *)
C36_FailedCheckMeansNew ==
    [][\A w \in Workers :
          (Busy(w) /\ Moves(w)) =>
              LET e == Cur(w)
                  k == LedgerKey(e)
              IN  /\ (pc[w] = "check" /\ failures' > failures) =>
                         /\ pc'[w] = "score" /\ idx'[w] = idx[w]
                         /\ existed'[w] = InTable(e)
                         /\ treatedNew'[e] = treatedNew[e] + 1
                  /\ (pc[w] = "score" /\ existed[w]) =>
                         /\ pc'[w] = "store"
                         /\ failures' = failures =>
                                score' = update_current_score(score, e, TRUE)
                  /\ (pc[w] = "store" /\ existed[w]) =>
                         /\ pc'[w] = "stats"
                         /\ failures' = failures => playsTbl' = store_play(playsTbl, e, TRUE)
                  /\ (pc[w] = "stats" /\ existed[w]) =>
                         /\ pc'[w] = "detect"
                         /\ (failures' = failures /\ WritesLedger(e)) =>
                                /\ ledger'[k] = AddToItem(ledger[k], calculate_stats_delta(e),
                                                          ResolveTeam(e, TRUE))
                                /\ adds'[e] = adds[e] + 1]_vars

(* A play handled to the end before was delivered again, its existence     *)
(* check raised, and its delta has been added to the ledger a second time. *)
C36_Witness ==
    \E w \in Workers :
        /\ pc[w] = "detect"
        /\ redo[w] /\ existed[w]
        /\ failures = 1
        /\ Cur(w) \in handled
        /\ InTable(Cur(w))
        /\ Cur(w) \in scoreApplied
        /\ adds[Cur(w)] = 2
        /\ ledger[LedgerKey(Cur(w))].points = 2 * calculate_stats_delta(Cur(w)).points
        /\ ledger[LedgerKey(Cur(w))].points > 0

(* The sum of the stat deltas (field f) of a set of play records.          *)
RECURSIVE DeltaSum(_, _)
DeltaSum(plays, f) ==
    IF plays = {} THEN 0
    ELSE LET p == CHOOSE x \in plays : TRUE
         IN  calculate_stats_delta(p)[f] + DeltaSum(plays \ {p}, f)

(* The stored play records of one player and game.                         *)
StoredPlaysOf(k) ==
    { i \in playsTbl : "playerId" \in i.keys /\ LedgerKey(i) = k }

(* C37: whenever no invocation is in progress, every ledger item's numeric *)
(* totals are the sums of the stat deltas of the play records stored for   *)
(* that player and game: no stored play is missing from the ledger and     *)
(* none is counted more than once.                                         *)
C37_LedgerIsSumOfStoredPlays ==
    (\A w \in Workers : pc[w] = "idle") =>
        \A k \in LedgerKeys : \A f \in StatFields :
            ledger[k][f] = DeltaSum(StoredPlaysOf(k), f)

-----------------------------------------------------------------------------
(* SpecSample: replay_game.py parses one recorded shot and sends it; the   *)
(* processing Lambda handles the record.  A recorded miss carries          *)
(* scoringPlay = false and either no scoreValue or the value of the shot   *)
(* attempted (the sample play of test_play_parsing.py is a missed jumper   *)
(* with scoreValue 2).                                                     *)

(* <<number, word of the text, type text, value of the shot>>              *)
SampleShots ==
    { <<1, "jumper", "jumpshot", 2>>, <<2, "three point", "jumpshot", 3>>,
      <<3, "layup", "layupshot", 2>>, <<4, "free throw", "freethrow", 1>> }

SamplePlay(s, made, sv, wc) ==
    EspnPlay("GAME#1", 10 * s[1] + (IF made THEN 5 ELSE 0) + sv, wc, 1, "9:52",
             {IF made THEN "made" ELSE "missed", s[2]},
             {IF s[3] # "freethrow" THEN s[3]
              ELSE IF made THEN "madefreethrow" ELSE "missedfreethrow"},
             IF made THEN sv ELSE 0, 0, made, sv, "H1", "p1")

SampleSource ==
    { SamplePlay(s, TRUE, s[4], wc) : s \in SampleShots, wc \in {0, 1} }
      \cup { SamplePlay(x[1], FALSE, x[2], wc) :
               x \in { y \in SampleShots \X (0..3) : y[2] \in {0, y[1][4]} }, wc \in {0, 1} }

SampleEvents == { parse_play_for_processing(sp, sp.game, 1) : sp \in SampleSource }

InitSample ==
    /\ InitProcOver(SampleEvents)
    /\ InitIngestIdle /\ InitHotIdle /\ InitRunIdle /\ InitRestIdle

(* replay_game: the play of the recorded game is parsed and sent.          *)
ReplaySample(sp) ==
    /\ stream = {}
    /\ stream' = { parse_play_for_processing(sp, sp.game, now) }
    /\ now' = now + 1
    /\ UNCHANGED <<procVars, hotVars, runVars, momVars, patVars, crashVars, fetchVars, wsVars>>

DeliverSample(w, play) ==
    /\ play \in stream
    /\ \A v \in Workers : pc[v] = "idle"
    /\ Deliver(w, <<play>>)

NextSample ==
    \/ \E sp \in SampleSource : ReplaySample(sp)
    \/ \E w \in Workers, play \in SampleEvents : DeliverSample(w, play)
    \/ \E w \in Workers : Check(w, TRUE)
    \/ \E w \in Workers : Score(w, TRUE)
    \/ \E w \in Workers : Store(w, TRUE)
    \/ \E w \in Workers, mdOk \in BOOLEAN : Stats(w, mdOk, TRUE)
    \/ \E w \in Workers : Detect(w, TRUE, TRUE)
    \/ \E w \in Workers : Return(w)

SpecSample == InitSample /\ [][NextSample]_vars

(* The recorded play an emitted record was parsed from.                    *)
SourceOf(e) == CHOOSE sp \in SampleSource : sp.sequenceNumber = Sequence(e)

(* C38: an emitted record has scoringPlay = true or a 'made' action only   *)
(* if the recorded play scored; a recorded play with scoringPlay = false   *)
(* is emitted with scoringPlay = false and a 'missed' action, and adds no  *)
(* points and no made field goal to the ledger.                            *)
C38_OnlyScoredPlaysScore ==
    \A e \in stream :
        LET sp == SourceOf(e)
        IN  /\ (e.scoringPlay \/ Has(e.action, "made")) => sp.scoringPlay
            /\ ~sp.scoringPlay =>
                  /\ ~e.scoringPlay /\ Has(e.action, "missed")
                  /\ ledger[LedgerKey(e)].points = 0
                  /\ ledger[LedgerKey(e)].fgMade = 0

-----------------------------------------------------------------------------
(* SpecSocket: the WebSocket Lambda (lambda/websocket/handler.py) and the  *)
(* subscriber lookup of the Push Lambda (lambda/push/handler.py).  API     *)
(* Gateway invokes the handler once per route event; the connection is     *)
(* established when $connect has returned 200, and the events of an        *)
(* established connection (messages, $disconnect) are handled by separate *)
(* invocations in any order.                                               *)

MaxSubscribes == 2      \* subscribe messages sent in one run

InitSocket ==
    /\ InitProc /\ InitIngestIdle /\ InitHotIdle /\ InitRunIdle
    /\ InitMomIdle /\ InitPatIdle /\ InitCrashIdle /\ InitFetchIdle
    /\ InitWsIdle

RestOfSocket == <<procVars, ingestVars, hotVars, runVars, momVars, patVars, crashVars, fetchVars>>

(* A client opens the socket: API Gateway dispatches $connect.             *)
Open(c) ==
    /\ wsClient[c] = "new"
    /\ wsClient' = [wsClient EXCEPT ![c] = "connecting"]
    /\ wsInbox' = wsInbox \cup {<<"$connect", c, "">>}
    /\ UNCHANGED <<wsTable, wsSent, wsDisconnected, wsLookup>>
    /\ UNCHANGED RestOfSocket

(* handle_connect: put_item of the whole item with gameId None; a raised   *)
(* exception gives 500 and API Gateway refuses the connection.             *)
HandleConnect(c, ok) ==
    /\ <<"$connect", c, "">> \in wsInbox
    /\ wsInbox' = wsInbox \ {<<"$connect", c, "">>}
    /\ wsTable' = IF ok
                  THEN [wsTable EXCEPT ![c] = [present |-> TRUE, gameId |-> "None",
                                                GSI1PK |-> "", connectedAt |-> 1]]
                  ELSE wsTable
    /\ wsClient' = [wsClient EXCEPT ![c] = IF ok THEN "open" ELSE "refused"]
    /\ UNCHANGED <<wsSent, wsDisconnected, wsLookup>>
    /\ UNCHANGED RestOfSocket

(* The client sends {"action": "subscribe", "gameId": g}.                  *)
SendSubscribe(c, g) ==
    /\ wsClient[c] = "open"
    /\ wsSent < MaxSubscribes
    /\ wsSent' = wsSent + 1
    /\ wsInbox' = wsInbox \cup {<<"subscribe", c, g>>}
    /\ UNCHANGED <<wsTable, wsClient, wsDisconnected, wsLookup>>
    /\ UNCHANGED RestOfSocket

(* The client goes away: API Gateway dispatches $disconnect.               *)
Close(c) ==
    /\ wsClient[c] = "open"
    /\ wsClient' = [wsClient EXCEPT ![c] = "closed"]
    /\ wsInbox' = wsInbox \cup {<<"$disconnect", c, "">>}
    /\ UNCHANGED <<wsTable, wsSent, wsDisconnected, wsLookup>>
    /\ UNCHANGED RestOfSocket

(* handle_message, action 'subscribe': update_item SET gameId, GSI1PK,     *)
(* GSI1SK on the key (WS#CONNECTION, connection id).  update_item creates  *)
(* the item when the key is absent.                                        *)
handle_subscribe(tbl, c, g, ok) ==
    IF ok
    THEN [tbl EXCEPT ![c] = [@ EXCEPT !.present = TRUE, !.gameId = g, !.GSI1PK = g]]
    ELSE tbl

HandleSubscribe(c, g, ok) ==
    /\ <<"subscribe", c, g>> \in wsInbox
    /\ wsInbox' = wsInbox \ {<<"subscribe", c, g>>}
    /\ wsTable' = handle_subscribe(wsTable, c, g, ok)
    /\ UNCHANGED <<wsClient, wsSent, wsDisconnected, wsLookup>>
    /\ UNCHANGED RestOfSocket

(* handle_disconnect: delete_item; an exception gives 500 and leaves the   *)
(* item.                                                                   *)
HandleDisconnect(c, ok) ==
    /\ <<"$disconnect", c, "">> \in wsInbox
    /\ wsInbox' = wsInbox \ {<<"$disconnect", c, "">>}
    /\ wsTable' = IF ok THEN [wsTable EXCEPT ![c] = NoConnection] ELSE wsTable
    /\ wsDisconnected' = IF ok THEN wsDisconnected \cup {c} ELSE wsDisconnected
    /\ UNCHANGED <<wsClient, wsSent, wsLookup>>
    /\ UNCHANGED RestOfSocket

(* get_connections_for_game: the items whose GSI1PK is the game; an        *)
(* exception reads as no connection.                                       *)
get_connections_for_game(tbl, game_id, ok) ==
    IF ok THEN { c \in ConnIds : tbl[c].present /\ tbl[c].GSI1PK = game_id } ELSE {}

(* The Push Lambda on a score update of game g: the lookup, then           *)
(* send_to_connection to each connection found; posting to a connection    *)
(* that is closed raises GoneException and delete_connection removes the   *)
(* item (its own exception is swallowed).                                  *)
Push(g, ok, delOk) ==
    /\ LET connections == get_connections_for_game(wsTable, g, ok)
           stale == { c \in connections : wsClient[c] = "closed" }
       IN  /\ wsLookup' = [wsLookup EXCEPT ![g] = connections]
           /\ wsTable' = IF delOk
                         THEN [c \in ConnIds |-> IF c \in stale THEN NoConnection
                                                 ELSE wsTable[c]]
                         ELSE wsTable
    /\ UNCHANGED <<wsClient, wsInbox, wsSent, wsDisconnected>>
    /\ UNCHANGED RestOfSocket

NextSocket ==
    \/ \E c \in ConnIds : Open(c)
    \/ \E c \in ConnIds, ok \in BOOLEAN : HandleConnect(c, ok)
    \/ \E c \in ConnIds, g \in Games : SendSubscribe(c, g)
    \/ \E c \in ConnIds : Close(c)
    \/ \E c \in ConnIds, g \in Games, ok \in BOOLEAN : HandleSubscribe(c, g, ok)
    \/ \E c \in ConnIds, ok \in BOOLEAN : HandleDisconnect(c, ok)
    \/ \E g \in Games, ok, delOk \in BOOLEAN : Push(g, ok, delOk)

SpecSocket == InitSocket /\ [][NextSocket]_vars

(* C39: once the $disconnect of connection c has been handled (its         *)
(* delete_item returned), no WS#CONNECTION item of c exists and no later   *)
(* subscriber lookup returns c, whatever the order in which the $connect,  *)
(* subscribe and $disconnect events of c are handled.                      *)
C39_DisconnectedStaysGone ==
    /\ [](\A c \in wsDisconnected : ~wsTable[c].present)
    /\ [][\A c \in wsDisconnected, g \in Games :
             wsLookup'[g] # wsLookup[g] => c \notin wsLookup'[g]]_vars

-----------------------------------------------------------------------------
(* SpecRerun: analyze_game of scripts/analyze_patterns_v2.py run again on  *)
(* a game whose play history has grown from 5 to 25 plays, with            *)
(* clear_existing set or not.                                              *)

FirstPlays == 5         \* plays collected before the first analysis

InitRerun ==
    /\ InitProc /\ InitIngestIdle /\ InitHotIdle /\ InitMomIdle /\ InitPatIdle
    /\ InitCrashIdle /\ InitFetchIdle /\ InitWsIdle
    /\ runPlays \in { SubSeq(h, 1, FirstPlays) : h \in PatternHistories }
    /\ pcRun = "collect"
    /\ runAll = <<>>
    /\ runOut = <<>>
    /\ runOut2 = <<>>

(* The rest of the period is collected: twenty plays without points.       *)
MorePlays ==
    /\ Len(runPlays) = FirstPlays
    /\ runPlays' = runPlays \o Rep(RunPlay("home", 0, 1), 20)
    /\ UNCHANGED <<pcRun, runAll, runOut, runOut2>>
    /\ UNCHANGED <<procVars, ingestVars, hotVars, momVars, patVars, crashVars, fetchVars, wsVars>>

(* clear_existing_patterns: every PATTERN# item of the game is deleted.    *)
clear_existing_patterns(tbl, game_id) == { i \in tbl : i.PK # game_id }

(* analyze_game(game_id, clear_existing), no call raising: the patterns    *)
(* are cleared if requested, detected, and stored under                    *)
(* PATTERN#<type>#<index> with the index running from 1 over the runs and  *)
(* on over the hot streaks.                                                *)
AnalyzeGameV2With(clear_existing) ==
    /\ analyses["season"] < MaxAnalyses
    /\ analyses' = [analyses EXCEPT !["season"] = @ + 1]
    /\ LET scoring_runs == SeasonRuns(runPlays)
           hot_streaks == SeasonStreaks(runPlays)
           nr == Len(scoring_runs)
           nh == Len(hot_streaks)
           kept == IF clear_existing
                   THEN clear_existing_patterns(patternTbl2, AnalysedGame)
                   ELSE patternTbl2
           items == [i \in 1..(nr + nh) |->
                       IF i <= nr
                       THEN store_pattern_v2(AnalysedGame, "scoring_run", scoring_runs[i],
                                             i, now + i - 1)
                       ELSE store_pattern_v2(AnalysedGame, "hot_streak",
                                             hot_streaks[i - nr], i, now + i - 1)]
       IN  /\ patternTbl2' = PutAll(kept, items, Len(items))
           /\ now' = now + Len(items)
    /\ UNCHANGED <<patternTbl, stream>>
    /\ UNCHANGED <<procVars, hotVars, runVars, momVars, crashVars, fetchVars, wsVars>>

NextRerun ==
    \/ MorePlays
    \/ \E clear_existing \in BOOLEAN : AnalyzeGameV2With(clear_existing)

SpecRerun == InitRerun /\ [][NextRerun]_vars

(* What the patterns detected on a history say, as pattern records.        *)
DetectedContents(hist) ==
    { <<"scoring_run", store_pattern_v2(AnalysedGame, "scoring_run", SeasonRuns(hist)[i], i, 0).body>> :
        i \in 1..Len(SeasonRuns(hist)) }
      \cup { <<"hot_streak", store_pattern_v2(AnalysedGame, "hot_streak", SeasonStreaks(hist)[i], i, 0).body>> :
               i \in 1..Len(SeasonStreaks(hist)) }

(* C40: after a successful analyze_game the game's PATTERN# records are    *)
(* exactly the scoring runs and hot streaks detected on the current        *)
(* history, one record each: none of an earlier analysis remains, with     *)
(* clear_existing set or not.                                              *)
C40_OnlyCurrentPatterns ==
    [][analyses'["season"] > analyses["season"] =>
          LET recs == { i \in patternTbl2' : i.PK = AnalysedGame }
          IN  /\ PatternContents(recs) = DetectedContents(runPlays)
              /\ Cardinality(recs) = Len(SeasonRuns(runPlays)) + Len(SeasonStreaks(runPlays))]_vars

=============================================================================
